---- MODULE Spec2Model ----
(***************************************************************************)
(* mcp-knowledge-mind: ingestion of documents into the SQLite store        *)
(* (docs, chunks, chunks_fts, chunks_embeddings, query_embeddings_cache)   *)
(* and hybrid search over it.                                              *)
(*                                                                         *)
(* Three ingestion paths of the repository are modelled:                   *)
(*   "repository"  LearnRepositoryUseCase.execute  (BatchProcessor)        *)
(*   "filesystem"  LearnFilesystemUseCase.execute  (sequential for loop)   *)
(*   "legacy"      the learn_repository handler of the single-file server  *)
(* JavaScript runs one continuation at a time: an action is the code that  *)
(* runs between two awaits.                                                *)
(***************************************************************************)
EXTENDS Integers, Sequences, FiniteSets, TLC

(***************************************************************************)
(* Bounds of the model                                                     *)
(***************************************************************************)
\* number of ingestion requests the server receives
MaxRuns == 2
\* number of distinct file paths a listing can return in the small scenarios
MaxPaths == 1
\* number of files of the tree in the batch scenario
MaxTreeFiles == 6
\* search requests
MaxAsks == 2
\* seconds the clock runs through
MaxClock == 1
\* access count up to which an entry of the cache is read or written again
MaxAccess == 3
\* entries the cache is let to grow beyond its limit, and searches of one
\* second among those that filled it
MaxOverflow == 2
\* largest limit a search is asked with on its own
MaxLimit == 3
\* item counts 0..MaxItems the batch size is computed for
MaxItems == 450
MaxLines == 3

(***************************************************************************)
(* Program constants                                                       *)
(***************************************************************************)
DefaultMinBatch == 5
DefaultMaxBatch == 20
LegacyBatchSize == 5
DefaultMaxChunkSize == 1000
MinContentLength == 50
DefaultSearchLimit == 10
MaxCachedText == 500
CacheLimit == 1000
FusionK == 60

NoText == "none"
EmbeddingModel == "nomic-embed-text"
LocalOwner == "__local__"

(***************************************************************************)
(* Raw texts.  A text is a sequence of lines; a line records what the      *)
(* splitter reads of it: its kind (top-level heading "# ", mid-level       *)
(* heading "## ".."#### ", other), the heading title, the number of        *)
(* tokens line.split(/\s+/) yields, its length in characters, and how     *)
(* many of these are white space at its start (lead) and end (trail).      *)
(***************************************************************************)
Heading(kind, title, len) ==
    [kind |-> kind, title |-> title, words |-> 2, len |-> len,
     lead |-> 0, trail |-> 0]

Body(words, len) ==
    [kind |-> "body", title |-> "", words |-> words, len |-> len,
     lead |-> 0, trail |-> 0]

\* a line with white space around its text
Padded(words, len, lead, trail) ==
    [kind |-> "body", title |-> "", words |-> words, len |-> len,
     lead |-> lead, trail |-> trail]

\* the empty line: ''.split(/\s+/) is ['']
Blank == Padded(1, 0, 0, 0)

\* the line is white space only
IsBlank(line) == line.len = line.lead

TextIds == {"short", "intro", "guide"}

Lines(t) ==
    CASE t = "short" -> << Body(3, 12) >>
      [] t = "intro" -> << Body(12, 64) >>
      [] t = "guide" -> << Heading("mid", "Setup", 8), Body(12, 64),
                           Heading("mid", "Usage", 8), Body(10, 58) >>
      [] OTHER -> << >>

HeaderLen(h) ==
    CASE h = "Introduction" -> 12
      [] h = "Setup" -> 5
      [] h = "Usage" -> 5
      [] OTHER -> 1

(***************************************************************************)
(* ContentSplitter.smartChunk                                              *)
(***************************************************************************)
RECURSIVE StripLeading(_)
StripLeading(ls) ==
    IF ls # << >> /\ IsBlank(Head(ls)) THEN StripLeading(Tail(ls)) ELSE ls

RECURSIVE StripTrailing(_)
StripTrailing(ls) ==
    IF ls # << >> /\ IsBlank(ls[Len(ls)])
    THEN StripTrailing(SubSeq(ls, 1, Len(ls) - 1))
    ELSE ls

\* line.trimStart() and line.trimEnd()
TrimStart(line) == [line EXCEPT !.len = @ - line.lead, !.lead = 0]
TrimEnd(line) == [line EXCEPT !.len = @ - line.trail, !.trail = 0]

\* currentChunk.join('\n').trim(): blank lines at either end disappear, and
\* so does the white space before the first text and after the last
Trim(ls) ==
    LET inner == StripTrailing(StripLeading(ls)) IN
    [j \in 1..Len(inner) |->
       LET started == IF j = 1 THEN TrimStart(inner[j]) ELSE inner[j]
       IN IF j = Len(inner) THEN TrimEnd(started) ELSE started]

RECURSIVE SumLen(_)
SumLen(ls) == IF ls = << >> THEN 0 ELSE Head(ls).len + SumLen(Tail(ls))

\* length of the joined string: the lines and the newlines between them
ContentLength(ls) == IF ls = << >> THEN 0 ELSE SumLen(ls) + Len(ls) - 1

SplitterStart ==
    [chunks |-> << >>, currentHeader |-> "Introduction",
     currentChunk |-> << >>, currentWordCount |-> 0]

finalizeChunkKeeping(s) ==
    IF Len(s.currentChunk) = 0 THEN s
    ELSE [s EXCEPT
            !.chunks = Append(@, [header |-> s.currentHeader,
                                  content |-> Trim(s.currentChunk),
                                  wordCount |-> s.currentWordCount]),
            !.currentChunk = << >>,
            !.currentWordCount = 0]

finalizeChunk(s) ==
    IF Len(s.currentChunk) = 0 THEN s
    ELSE LET content == Trim(s.currentChunk) IN
         [s EXCEPT
            !.chunks = IF ContentLength(content) > MinContentLength
                       THEN Append(@, [header |-> s.currentHeader,
                                       content |-> content,
                                       wordCount |-> s.currentWordCount])
                       ELSE @,
            !.currentChunk = << >>,
            !.currentWordCount = 0]

ContinuationLine(header) ==
    [kind |-> "body", title |-> header, words |-> 3, len |-> 19 + HeaderLen(header),
     lead |-> 0, trail |-> 0]

\* "Detect headers (## or ###)": the chunk so far is closed, the heading
\* names the chunk it opens and is its first line
midHeadingEarly(s, line) ==
    LET named == [s EXCEPT !.currentHeader = IF line.title # "" THEN line.title ELSE @]
        f == IF Len(named.currentChunk) > 0 THEN finalizeChunk(named) ELSE named
    IN [f EXCEPT !.currentChunk = Append(@, line),
                 !.currentWordCount = @ + line.words]

midHeading(s, line) ==
    LET f == IF Len(s.currentChunk) > 0 THEN finalizeChunk(s) ELSE s IN
    [f EXCEPT !.currentHeader = IF line.title # "" THEN line.title ELSE @,
              !.currentChunk = Append(@, line),
              !.currentWordCount = @ + line.words]

\* "Main header - reset completely"
mainHeadingCarrying(s, line) ==
    LET f == IF Len(s.currentChunk) > 0 THEN finalizeChunk(s) ELSE s IN
    [f EXCEPT !.currentHeader = line.title,
              !.currentChunk = Append(s.currentChunk, line),
              !.currentWordCount = s.currentWordCount + line.words]

mainHeading(s, line) ==
    LET f == IF Len(s.currentChunk) > 0 THEN finalizeChunk(s) ELSE s IN
    [f EXCEPT !.currentHeader = line.title,
              !.currentChunk = << line >>,
              !.currentWordCount = line.words]

\* "If adding this line exceeds the limit, finalize the current chunk" and
\* "Continue with the same header"
softBoundaryUnmarked(s) == finalizeChunk(s)

softBoundary(s) ==
    LET f == finalizeChunk(s) IN
    [f EXCEPT !.currentChunk = Append(@, ContinuationLine(f.currentHeader)),
              !.currentWordCount = @ + ContinuationLine(f.currentHeader).words]

\* currentChunk.push(line); currentWordCount += lineWordCount
pushLineAlone(s, line) ==
    [s EXCEPT !.currentChunk = << line >>,
              !.currentWordCount = @ + line.words]

pushLine(s, line) ==
    [s EXCEPT !.currentChunk = Append(@, line),
              !.currentWordCount = @ + line.words]

SplitLine(s, line, maxChunkSize) ==
    IF line.kind = "mid" THEN midHeading(s, line)
    ELSE IF line.kind = "top" THEN mainHeading(s, line)
    ELSE LET over == s.currentWordCount + line.words > maxChunkSize
                     /\ Len(s.currentChunk) > 0
             a == pushLine(IF over THEN softBoundary(s) ELSE s, line)
         IN IF 2 * a.currentWordCount > 3 * maxChunkSize THEN finalizeChunk(a) ELSE a

RECURSIVE SplitLines(_, _, _)
SplitLines(s, ls, maxChunkSize) ==
    IF ls = << >> THEN s
    ELSE SplitLines(SplitLine(s, Head(ls), maxChunkSize), Tail(ls), maxChunkSize)

\* after the loop: "Add the last chunk if it exists"
SplitLast(s) == (IF Len(s.currentChunk) > 0 THEN finalizeChunk(s) ELSE s).chunks

\* smartChunk on the lines text.split('\n') gives
smartChunkLines(lines, maxChunkSize) ==
    IF Trim(lines) = << >> THEN << >>
    ELSE SplitLast(SplitLines(SplitterStart, lines, maxChunkSize))

smartChunk(t, maxChunkSize) == smartChunkLines(Lines(t), maxChunkSize)

(***************************************************************************)
(* State                                                                   *)
(***************************************************************************)
VARIABLES
    docs,                   \* table docs: rows [id, repo_owner, repo_name, path, sha, content, source_type]
    chunks,                 \* table chunks: rows [id, doc_id, header, content, word_count]
    chunks_fts,             \* FTS5 index kept by the triggers: rows [rowid, header, content]
    chunks_embeddings,      \* vec0 table: rows [chunk_id, embedding]
    docSeq,                 \* AUTOINCREMENT sequence of docs
    chunkSeq,               \* AUTOINCREMENT sequence of chunks
    query_embeddings_cache, \* rows [query_hash, query_text, model, embedding, access_count]
    runs,                   \* the ingestion requests, by request number
    lastSearch,             \* what the search of the last step read (NoSearch otherwise)
    prior,                  \* path -> text whose ingestion the store held at start
    clock,                  \* CURRENT_TIMESTAMP, in seconds
    active,                 \* the server that runs and the embedding provider its startup chose
    asks,                   \* the search requests, by request number
    probe                   \* arguments and result of a call of a function on its own

store == << docs, chunks, chunks_fts, chunks_embeddings, docSeq, chunkSeq >>
vars == << docs, chunks, chunks_fts, chunks_embeddings, docSeq, chunkSeq,
           query_embeddings_cache, runs, lastSearch, prior,
           clock, active, asks, probe >>

\* the state the ingestion requests leave as it is
service == << clock, active, asks, probe >>

Runs == 1..MaxRuns
Paths == 1..MaxPaths
Modes == {"repository", "filesystem", "legacy"}
NoSearch == [done |-> FALSE]

(***************************************************************************)
(* Hashes and embeddings                                                   *)
(***************************************************************************)
\* the blob sha of the GitHub tree entry that holds text t
BlobSha(t) == [algo |-> "git", of |-> t]
\* crypto.createHash('sha256').update(text).digest('hex')
Sha256(t) == [algo |-> "sha256", of |-> t]
\* `${chunk.header}\n${chunk.content}`
EmbeddingText(c) == [header |-> c.header, content |-> c.content]
\* the embedding providers the startup chooses between, and their models
Providers == {"ollama", "local-transformers"}
LocalModel == "nomic-ai/nomic-embed-text-v1.5"
ProviderModel(provider) == IF provider = "ollama" THEN EmbeddingModel ELSE LocalModel

\* the vector a model gives for a text
EmbedWith(model, text) == [vector |-> text, model |-> model]
\* the vector the active provider returns for a text
Embed(text) == EmbedWith(ProviderModel(active.provider), text)

\* the number of characters of a text: a query, or `${header}\n${content}`
TextLength(text) ==
    IF "len" \in DOMAIN text THEN text.len
    ELSE HeaderLen(text.header) + 1 + ContentLength(text.content)

\* text.substring(0, n)
Substring(text, n) ==
    IF TextLength(text) <= n THEN text
    ELSE [cut |-> n, of |-> text, len |-> n]
\* sha256 of `${model}:${text}`
QueryHash(model, text) == [model |-> model, text |-> text]

SourceType(mode) == IF mode = "filesystem" THEN "local" ELSE "github"
FileSha(mode, t) == IF mode = "filesystem" THEN Sha256(t) ELSE BlobSha(t)

(***************************************************************************)
(* SqliteDocsRepository                                                    *)
(***************************************************************************)
SameKey(d, doc) ==
    /\ d.repo_owner = doc.repo_owner
    /\ d.repo_name = doc.repo_name
    /\ d.path = doc.path

\* a plain INSERT, without the ON CONFLICT clause taking effect
saveDocRowsAlwaysInsert(doc) ==
    docs \cup { [id |-> docSeq + 1, repo_owner |-> doc.repo_owner,
                 repo_name |-> doc.repo_name, path |-> doc.path,
                 sha |-> doc.sha, content |-> doc.content,
                 source_type |-> doc.source_type] }

\* INSERT INTO docs .. ON CONFLICT(repo_owner, repo_name, path) DO UPDATE .. RETURNING id
saveDocRows(doc) ==
    IF \E d \in docs : SameKey(d, doc)
    THEN { IF SameKey(d, doc)
           THEN [d EXCEPT !.sha = doc.sha, !.content = doc.content,
                          !.source_type = doc.source_type]
           ELSE d : d \in docs }
    ELSE docs \cup { [id |-> docSeq + 1, repo_owner |-> doc.repo_owner,
                      repo_name |-> doc.repo_name, path |-> doc.path,
                      sha |-> doc.sha, content |-> doc.content,
                      source_type |-> doc.source_type] }

saveDocId(doc) ==
    IF \E d \in docs : SameKey(d, doc)
    THEN (CHOOSE d \in docs : SameKey(d, doc)).id
    ELSE docSeq + 1

saveDoc(doc) ==
    /\ docs' = saveDocRows(doc)
    /\ docSeq' = IF \E d \in docs : SameKey(d, doc) THEN docSeq ELSE docSeq + 1

ChunkIdsOf(docId) == { c.id : c \in { x \in chunks : x.doc_id = docId } }

\* the transaction of saveChunks: the document's vectors and chunks go, the
\* new chunks come in with fresh ids, each with its vector; the triggers
\* chunks_ad and chunks_ai keep chunks_fts in step
saveChunks(docId, chunkList) ==
    LET old == ChunkIdsOf(docId)
        ids == { chunkSeq + j : j \in 1..Len(chunkList) }
    IN /\ chunks' = { c \in chunks : c.doc_id # docId } \cup
                    { [id |-> chunkSeq + j, doc_id |-> docId,
                       header |-> chunkList[j].header,
                       content |-> chunkList[j].content,
                       word_count |-> chunkList[j].wordCount] : j \in 1..Len(chunkList) }
       /\ chunks_fts' = { f \in chunks_fts : f.rowid \notin old } \cup
                        { [rowid |-> chunkSeq + j, header |-> chunkList[j].header,
                           content |-> chunkList[j].content] : j \in 1..Len(chunkList) }
       /\ chunks_embeddings' = { e \in chunks_embeddings : e.chunk_id \notin old } \cup
                               { [chunk_id |-> chunkSeq + j,
                                  embedding |-> chunkList[j].embedding] : j \in 1..Len(chunkList) }
       /\ chunkSeq' = chunkSeq + Len(chunkList)

(***************************************************************************)
(* The single-file server's statements on the same tables                  *)
(***************************************************************************)
\* DELETE FROM chunks_embeddings WHERE chunk_id IN (..); DELETE FROM chunks WHERE doc_id = ?
CleanedChunks(docId) == { c \in chunks : c.doc_id # docId }
CleanedFts(docId) == { f \in chunks_fts : f.rowid \notin ChunkIdsOf(docId) }
CleanedEmbeddings(docId) ==
    { e \in chunks_embeddings : e.chunk_id \notin ChunkIdsOf(docId) }

ChunkRow(id, docId, c) ==
    [id |-> id, doc_id |-> docId, header |-> c.header, content |-> c.content,
     word_count |-> c.wordCount]
FtsRow(id, c) == [rowid |-> id, header |-> c.header, content |-> c.content]

\* SELECT embedding FROM query_embeddings_cache WHERE query_hash = ?
CacheHit(cache, text) ==
    \E e \in cache : e.query_hash = QueryHash(EmbeddingModel, text)

\* Buffer.from(embedding.buffer ..) and new Float32Array(cached.embedding.buffer ..)
ToBlob(embedding) == [bytes |-> embedding]
FromBlob(blob) == blob.bytes

CachedEmbedding(cache, text) ==
    FromBlob((CHOOSE e \in cache : e.query_hash = QueryHash(EmbeddingModel, text)).embedding)

\* UPDATE query_embeddings_cache SET last_accessed = CURRENT_TIMESTAMP,
\* access_count = access_count + 1 WHERE query_hash = ?
CacheTouched(cache, text) ==
    { IF e.query_hash = QueryHash(EmbeddingModel, text)
      THEN [e EXCEPT !.access_count = @ + 1, !.last_accessed = clock]
      ELSE e : e \in cache }

\* INSERT INTO query_embeddings_cache .. ON CONFLICT(query_hash) DO UPDATE SET access_count + 1
CacheStored(cache, text, embedding) ==
    IF CacheHit(cache, text) THEN CacheTouched(cache, text)
    ELSE cache \cup
         { [query_hash |-> QueryHash(EmbeddingModel, text),
            query_text |-> Substring(text, MaxCachedText),
            model |-> ProviderModel(active.provider), embedding |-> ToBlob(embedding),
            last_accessed |-> clock, access_count |-> 1] }

\* getEmbedding up to its first await: a hit refreshes the entry and the
\* vector is returned without a provider call
CacheLookedUp(cache, text) ==
    IF CacheHit(cache, text) THEN CacheTouched(cache, text) ELSE cache

(***************************************************************************)
(* BatchProcessor                                                          *)
(***************************************************************************)
Min(a, b) == IF a < b THEN a ELSE b
Max(a, b) == IF a > b THEN a ELSE b

\* Math.floor(Math.sqrt(n))
FloorSqrt(n) == CHOOSE k \in 0..n : k * k <= n /\ (k + 1) * (k + 1) > n

\* Math.ceil(Math.sqrt(n))
CeilSqrt(n) == CHOOSE k \in 0..n : k * k >= n /\ (k = 0 \/ (k - 1) * (k - 1) < n)

calculateOptimalBatchSize(totalItems, minBatch, maxBatch) ==
    IF totalItems <= 0 THEN minBatch
    ELSE Min(Max(CeilSqrt(totalItems), minBatch), maxBatch)

\* a slice without its end: items.slice(i)
BatchRangeOpenEnded(i, batchSize, n) == (i + 1)..n

\* items.slice(i, i + batchSize), as positions 1..n of the item list
BatchRange(i, batchSize, n) == (i + 1)..Min(i + batchSize, n)

Settled(item) == item.pc \in {"done", "failed"}

\* a race instead of an all: the first settled item ends the wait
BatchAnySettled(run) ==
    \E k \in BatchRange(run.i, run.batchSize, Len(run.items)) : Settled(run.items[k])

\* await Promise.all(batch.map(processFn)) has resolved
BatchSettled(run) ==
    \A k \in BatchRange(run.i, run.batchSize, Len(run.items)) : Settled(run.items[k])

(***************************************************************************)
(* Ingestion requests                                                      *)
(***************************************************************************)
IdleRun ==
    [st |-> "idle", mode |-> "repository", owner |-> "", items |-> << >>,
     batchSize |-> 0, i |-> 0, progress |-> << >>,
     totalChunks |-> 0, processedFiles |-> 0,
     result |-> [processedFiles |-> 0, totalFiles |-> 0, totalChunks |-> 0]]

NewItem(path, text) ==
    [pc |-> "pending", path |-> path, text |-> text, docId |-> 0, n |-> 0,
     chunkId |-> 0, hit |-> FALSE, matched |-> FALSE, written |-> 0]

RepoName == "docs"
GithubOwner == "acme"
OwnerOf(mode) == IF mode = "filesystem" THEN LocalOwner ELSE GithubOwner

DocOf(run, item) ==
    [repo_owner |-> run.owner, repo_name |-> RepoName, path |-> item.path,
     sha |-> FileSha(run.mode, item.text), content |-> item.text,
     source_type |-> SourceType(run.mode)]

ChunksData(item) == smartChunk(item.text, DefaultMaxChunkSize)

\* the Chunk entities the use case has built once every chunk is embedded
EmbeddedChunks(item) ==
    [j \in 1..Len(ChunksData(item)) |->
        [header |-> ChunksData(item)[j].header,
         content |-> ChunksData(item)[j].content,
         wordCount |-> ChunksData(item)[j].wordCount,
         embedding |-> Embed(EmbeddingText(ChunksData(item)[j]))]]

\* batch.map(processFn): every item of the batch runs up to its first await
StartItemsFromFirst(items, range) ==
    [k \in 1..Len(items) |->
        IF \E j \in range : k <= j THEN [items[k] EXCEPT !.pc = "fetch"] ELSE items[k]]

StartItems(items, range) ==
    [k \in 1..Len(items) |->
        IF k \in range THEN [items[k] EXCEPT !.pc = "fetch"] ELSE items[k]]

\* return { processedFiles, totalFiles: files.length, totalChunks }
Return(run) ==
    [run EXCEPT !.st = "returned",
                !.result = [processedFiles |-> run.processedFiles,
                            totalFiles |-> Len(run.items),
                            totalChunks |-> run.totalChunks]]

\* the end of one item's processing.  In the for loop of the filesystem use
\* case the same continuation goes on to the next file or to the return.
Finish(run, k) ==
    IF run.mode = "filesystem"
    THEN IF k < Len(run.items)
         THEN [run EXCEPT !.items[k + 1].pc = "fetch"]
         ELSE Return(run)
    ELSE run

\* totalChunks++ in place of totalChunks += chunks.length
SucceedCountingOne(run, k, count) ==
    Finish([run EXCEPT !.items[k].pc = "done", !.items[k].n = 0,
                       !.items[k].written = count,
                       !.totalChunks = @ + 1,
                       !.processedFiles = @ + 1], k)

\* the end of the try block: totalChunks += chunks.length; processedFiles++
Succeed(run, k, count) ==
    Finish([run EXCEPT !.items[k].pc = "done", !.items[k].n = 0,
                       !.items[k].written = count,
                       !.totalChunks = @ + count,
                       !.processedFiles = @ + 1], k)

\* no catch around the item: the rejection reaches execute through Promise.all
CatchMissing(run, k) ==
    [run EXCEPT !.items[k].pc = "failed", !.items[k].n = 0,
                !.items[k].hit = FALSE, !.st = "error"]

\* catch (error) { logger.error(..) }
Catch(run, k) ==
    Finish([run EXCEPT !.items[k].pc = "failed", !.items[k].n = 0,
                       !.items[k].hit = FALSE], k)

StoreUnchanged ==
    UNCHANGED << docs, chunks, chunks_fts, chunks_embeddings, docSeq, chunkSeq >>

\* the arguments are not checked
ExecuteUnchecked(r, mode, owner) ==
    /\ runs[r].st = "idle"
    /\ \A q \in 1..(r - 1) : runs[q].st # "idle"
    /\ runs' = [runs EXCEPT ![r] = [@ EXCEPT !.st = "listing", !.mode = mode,
                                              !.owner = owner]]
    /\ lastSearch' = NoSearch
    /\ StoreUnchanged
    /\ UNCHANGED << query_embeddings_cache, prior, service >>

\* execute({owner, repo, branch}) / execute({directoryPath}) / the
\* learn_repository branch of the request handler: the arguments are checked,
\* then the listing is requested
Execute(r, mode, owner) ==
    /\ runs[r].st = "idle"
    /\ \A q \in 1..(r - 1) : runs[q].st # "idle"
    /\ runs' = [runs EXCEPT ![r] =
                  IF owner = ""
                  THEN [@ EXCEPT !.st = "error", !.mode = mode]
                  ELSE [@ EXCEPT !.st = "listing", !.mode = mode, !.owner = owner]]
    /\ lastSearch' = NoSearch
    /\ StoreUnchanged
    /\ UNCHANGED << query_embeddings_cache, prior, service >>

\* getTree / getFilesRecursive raises: the request fails before any item
ListingRaise(r) ==
    /\ runs[r].st = "listing"
    /\ runs' = [runs EXCEPT ![r].st = "error"]
    /\ lastSearch' = NoSearch
    /\ StoreUnchanged
    /\ UNCHANGED << query_embeddings_cache, prior, service >>

\* the listing arrives (tree[k] is the text file k holds): the batch size is
\* computed and the first batch (the first file, in the for loop) starts;
\* with no file the loop is skipped and the counts are returned
ListingResolve(r, tree) ==
    /\ runs[r].st = "listing"
    /\ LET run == runs[r]
           n == Len(tree)
           items == [k \in 1..n |-> NewItem(k, tree[k])]
           size == IF run.mode = "repository"
                   THEN calculateOptimalBatchSize(n, DefaultMinBatch, DefaultMaxBatch)
                   ELSE IF run.mode = "legacy" THEN LegacyBatchSize ELSE 1
           started == [run EXCEPT !.st = "running",
                                  !.batchSize = size,
                                  !.i = 0,
                                  !.items = StartItems(items, BatchRange(0, size, n))]
       IN runs' = [runs EXCEPT ![r] = IF n = 0 THEN Return(started) ELSE started]
    /\ lastSearch' = NoSearch
    /\ StoreUnchanged
    /\ UNCHANGED << query_embeddings_cache, prior, service >>

\* processedCount += batchSize in place of processedCount += batch.length
BatchAdvanceCountingSize(r) ==
    /\ runs[r].st = "running"
    /\ runs[r].mode \in {"repository", "legacy"}
    /\ BatchSettled(runs[r])
    /\ LET run == runs[r]
           n == Len(run.items)
           next == run.i + run.batchSize
           advanced == [run EXCEPT
                          !.i = next,
                          !.progress = IF run.mode = "repository" THEN Append(@, next) ELSE @,
                          !.items = StartItems(run.items, BatchRange(next, run.batchSize, n))]
       IN runs' = [runs EXCEPT ![r] = IF next < n THEN advanced ELSE Return(advanced)]
    /\ lastSearch' = NoSearch
    /\ StoreUnchanged
    /\ UNCHANGED << query_embeddings_cache, prior, service >>

\* processBatch after await Promise.all(..): processedCount += batch.length,
\* onBatchComplete(processedCount, items.length), i += batchSize, and either
\* the next batch starts or processBatch returns and execute returns the counts
BatchAdvance(r) ==
    /\ runs[r].st = "running"
    /\ runs[r].mode \in {"repository", "legacy"}
    /\ BatchSettled(runs[r])
    /\ LET run == runs[r]
           n == Len(run.items)
           next == run.i + run.batchSize
           seen == Min(next, n)
           advanced == [run EXCEPT
                          !.i = next,
                          !.progress = IF run.mode = "repository" THEN Append(@, seen) ELSE @,
                          !.items = StartItems(run.items, BatchRange(next, run.batchSize, n))]
       IN runs' = [runs EXCEPT ![r] = IF next < n THEN advanced ELSE Return(advanced)]
    /\ lastSearch' = NoSearch
    /\ StoreUnchanged
    /\ UNCHANGED << query_embeddings_cache, prior, service >>

\* the document's chunks are cleaned before the content is there
FetchRaiseAfterClean(r, k) ==
    /\ runs[r].st = "running"
    /\ runs[r].items[k].pc = "fetch"
    /\ runs' = [runs EXCEPT ![r] = Catch(@, k)]
    /\ lastSearch' = NoSearch
    /\ chunks' = { c \in chunks :
                     \A d \in docs : SameKey(d, DocOf(runs[r], runs[r].items[k]))
                                     => c.doc_id # d.id }
    /\ UNCHANGED << docs, chunks_fts, chunks_embeddings, docSeq, chunkSeq,
                    query_embeddings_cache, prior, service >>

\* getFileContent / readFile / getBlob raises
FetchRaise(r, k) ==
    /\ runs[r].st = "running"
    /\ runs[r].items[k].pc = "fetch"
    /\ runs' = [runs EXCEPT ![r] = Catch(@, k)]
    /\ lastSearch' = NoSearch
    /\ StoreUnchanged
    /\ UNCHANGED << query_embeddings_cache, prior, service >>

\* the content arrives in a use case: new Doc(..), saveDoc(doc)
FetchResolve(r, k) ==
    /\ runs[r].st = "running"
    /\ runs[r].mode \in {"repository", "filesystem"}
    /\ runs[r].items[k].pc = "fetch"
    /\ LET doc == DocOf(runs[r], runs[r].items[k]) IN
         /\ saveDoc(doc)
         /\ runs' = [runs EXCEPT
                       ![r].items[k].pc = "saveDoc",
                       ![r].items[k].docId = saveDocId(doc),
                       ![r].items[k].matched =
                           \E d \in docs : SameKey(d, doc) /\ d.sha = doc.sha]
    /\ lastSearch' = NoSearch
    /\ UNCHANGED << chunks, chunks_fts, chunks_embeddings, chunkSeq,
                    query_embeddings_cache, prior, service >>

\* after await saveDoc: smartChunk(text); with chunks, embed the first one;
\* with none, saveChunks(docId, []) at once
Chunked(r, k) ==
    /\ runs[r].st = "running"
    /\ runs[r].items[k].pc = "saveDoc"
    /\ LET item == runs[r].items[k] IN
         IF Len(ChunksData(item)) = 0
         THEN /\ saveChunks(item.docId, << >>)
              /\ runs' = [runs EXCEPT ![r] = Succeed(@, k, 0)]
         ELSE /\ runs' = [runs EXCEPT ![r].items[k].pc = "embed", ![r].items[k].n = 1]
              /\ UNCHANGED << chunks, chunks_fts, chunks_embeddings, chunkSeq >>
    /\ lastSearch' = NoSearch
    /\ UNCHANGED << docs, docSeq, query_embeddings_cache, prior, service >>

\* embeddingService.embed resolves in a use case: the chunk is pushed; the
\* next chunk is embedded, or after the last one saveChunks(docId, chunks)
Embedded(r, k) ==
    /\ runs[r].st = "running"
    /\ runs[r].mode \in {"repository", "filesystem"}
    /\ runs[r].items[k].pc = "embed"
    /\ LET item == runs[r].items[k] IN
         IF item.n < Len(ChunksData(item))
         THEN /\ runs' = [runs EXCEPT ![r].items[k].n = item.n + 1]
              /\ UNCHANGED << chunks, chunks_fts, chunks_embeddings, chunkSeq >>
         ELSE /\ saveChunks(item.docId, EmbeddedChunks(item))
              /\ runs' = [runs EXCEPT ![r] = Succeed(@, k, Len(ChunksData(item)))]
    /\ lastSearch' = NoSearch
    /\ UNCHANGED << docs, docSeq, query_embeddings_cache, prior, service >>

\* the embedding provider raises (in the single-file server only a cache
\* miss reaches the provider)
EmbedRaise(r, k) ==
    /\ runs[r].st = "running"
    /\ runs[r].items[k].pc = "embed"
    /\ ~runs[r].items[k].hit
    /\ runs' = [runs EXCEPT ![r] = Catch(@, k)]
    /\ lastSearch' = NoSearch
    /\ StoreUnchanged
    /\ UNCHANGED << query_embeddings_cache, prior, service >>

\* the transaction of saveChunks raises and is rolled back
SaveChunksRaise(r, k) ==
    /\ runs[r].st = "running"
    /\ runs[r].mode \in {"repository", "filesystem"}
    /\ LET item == runs[r].items[k] IN
         \/ item.pc = "saveDoc" /\ Len(ChunksData(item)) = 0
         \/ item.pc = "embed" /\ item.n = Len(ChunksData(item))
    /\ runs' = [runs EXCEPT ![r] = Catch(@, k)]
    /\ lastSearch' = NoSearch
    /\ StoreUnchanged
    /\ UNCHANGED << query_embeddings_cache, prior, service >>

\* the blob arrives in the single-file server: the document is upserted, its
\* chunks and vectors are deleted, the text is chunked, the first chunk is
\* inserted and its embedding is requested
LegacyFetched(r, k) ==
    /\ runs[r].st = "running"
    /\ runs[r].mode = "legacy"
    /\ runs[r].items[k].pc = "fetch"
    /\ LET item == runs[r].items[k]
           doc == DocOf(runs[r], item)
           docId == saveDocId(doc)
           data == ChunksData(item)
       IN /\ saveDoc(doc)
          /\ IF Len(data) = 0
             THEN /\ chunks' = CleanedChunks(docId)
                  /\ chunks_fts' = CleanedFts(docId)
                  /\ chunkSeq' = chunkSeq
                  /\ query_embeddings_cache' = query_embeddings_cache
                  /\ runs' = [runs EXCEPT
                                ![r].items[k].pc = "done",
                                ![r].items[k].docId = docId,
                                ![r].items[k].matched =
                                    \E d \in docs : SameKey(d, doc) /\ d.sha = doc.sha,
                                ![r].processedFiles = @ + 1]
             ELSE /\ chunks' = CleanedChunks(docId) \cup
                               { ChunkRow(chunkSeq + 1, docId, data[1]) }
                  /\ chunks_fts' = CleanedFts(docId) \cup { FtsRow(chunkSeq + 1, data[1]) }
                  /\ chunkSeq' = chunkSeq + 1
                  /\ query_embeddings_cache' =
                        CacheLookedUp(query_embeddings_cache, EmbeddingText(data[1]))
                  /\ runs' = [runs EXCEPT
                                ![r].items[k].pc = "embed",
                                ![r].items[k].docId = docId,
                                ![r].items[k].n = 1,
                                ![r].items[k].chunkId = chunkSeq + 1,
                                ![r].items[k].hit =
                                    CacheHit(query_embeddings_cache, EmbeddingText(data[1])),
                                ![r].items[k].matched =
                                    \E d \in docs : SameKey(d, doc) /\ d.sha = doc.sha]
          /\ chunks_embeddings' = CleanedEmbeddings(docId)
    /\ lastSearch' = NoSearch
    /\ UNCHANGED << prior, service >>

\* getEmbedding returns in the single-file server: a miss is stored in the
\* cache, the vector is inserted for the chunk, totalChunks++, and the next
\* chunk is inserted and its embedding requested, or processedFiles++
LegacyEmbedded(r, k) ==
    /\ runs[r].st = "running"
    /\ runs[r].mode = "legacy"
    /\ runs[r].items[k].pc = "embed"
    /\ LET item == runs[r].items[k]
           data == ChunksData(item)
           text == EmbeddingText(data[item.n])
           embedding == IF item.hit /\ CacheHit(query_embeddings_cache, text)
                        THEN CachedEmbedding(query_embeddings_cache, text)
                        ELSE Embed(text)
           cache == IF item.hit THEN query_embeddings_cache
                    ELSE CacheStored(query_embeddings_cache, text, embedding)
       IN /\ chunks_embeddings' = chunks_embeddings \cup
                 { [chunk_id |-> item.chunkId, embedding |-> embedding] }
          /\ IF item.n < Len(data)
             THEN /\ chunks' = chunks \cup
                               { ChunkRow(chunkSeq + 1, item.docId, data[item.n + 1]) }
                  /\ chunks_fts' = chunks_fts \cup
                               { FtsRow(chunkSeq + 1, data[item.n + 1]) }
                  /\ chunkSeq' = chunkSeq + 1
                  /\ query_embeddings_cache' =
                        CacheLookedUp(cache, EmbeddingText(data[item.n + 1]))
                  /\ runs' = [runs EXCEPT
                                ![r].items[k].n = item.n + 1,
                                ![r].items[k].chunkId = chunkSeq + 1,
                                ![r].items[k].hit =
                                    CacheHit(cache, EmbeddingText(data[item.n + 1])),
                                ![r].totalChunks = @ + 1]
             ELSE /\ UNCHANGED << chunks, chunks_fts, chunkSeq >>
                  /\ query_embeddings_cache' = cache
                  /\ runs' = [runs EXCEPT
                                ![r].items[k].pc = "done",
                                ![r].items[k].n = 0,
                                ![r].items[k].hit = FALSE,
                                ![r].items[k].written = Len(data),
                                ![r].totalChunks = @ + 1,
                                ![r].processedFiles = @ + 1]
    /\ lastSearch' = NoSearch
    /\ UNCHANGED << docs, docSeq, prior, service >>

(***************************************************************************)
(* Search                                                                  *)
(***************************************************************************)
\* a query of len characters; the empty query is ""
Query(name, number, len) == [q |-> << name, number >>, len |-> len]
EmptyQuery == Query("", 0, 0)

\* bm25(chunks_fts) of a row the phrase matches, and the distance of a stored
\* vector from the query vector, in hundredths: what the two indexes compute
Bm25(query, f) == IF f.header = "Introduction" THEN -1 ELSE -3
Distance(queryEmbedding, e) ==
    IF e.embedding.model # queryEmbedding.model THEN 150
    ELSE IF e.embedding.vector.header = "Setup" THEN 0 ELSE 40

\* the rows of S in the order ORDER BY key ASC gives (rows of equal key by id)
\* (key[x] is the pair of the key and the id of row x)
RECURSIVE Ordered(_, _)
Ordered(S, key) ==
    IF S = { } THEN << >>
    ELSE LET first == CHOOSE x \in S :
                        \A y \in S : \/ key[x][1] < key[y][1]
                                      \/ (key[x][1] = key[y][1] /\ key[x][2] <= key[y][2])
         IN << first >> \o Ordered(S \ {first}, key)

\* LIMIT n
Limited(rows, n) == SubSeq(rows, 1, Min(Len(rows), n))

\* 1 + Math.log(1 + Math.max(0, -bm25_score)), in hundredths
BmWeight(bm25_score) ==
    LET positiveScore == Max(0, 0 - bm25_score) IN
    CASE positiveScore = 0 -> 100
      [] positiveScore = 1 -> 169
      [] positiveScore = 2 -> 210
      [] positiveScore = 3 -> 239
      [] positiveScore = 4 -> 261
      [] positiveScore = 5 -> 279

\* scores are fractions num / den of hundredths, den > 0
Fraction(num, den) == [num |-> num, den |-> den]
Plus(a, b) == Fraction(a.num * b.den + b.num * a.den, a.den * b.den)
\* b[1] - a[1] < 0 in the comparator of sort: a goes before b
Above(a, b) == a.num * b.den > b.num * a.den
AtLeast(a, b) == a.num * b.den >= b.num * a.den

\* scores.get(id) || 0
ScoreOf(scores, id) ==
    IF \E j \in 1..Len(scores) : scores[j].id = id
    THEN (CHOOSE e \in { scores[j] : j \in 1..Len(scores) } : e.id = id).score
    ELSE Fraction(0, 1)

\* a list of pairs in place of the map: every value is a new entry
ScoreSetAppending(scores, id, value) == Append(scores, [id |-> id, score |-> value])

\* scores.set(id, value): a new key goes last, a known key keeps its place
ScoreSet(scores, id, value) ==
    IF \E j \in 1..Len(scores) : scores[j].id = id
    THEN [j \in 1..Len(scores) |->
            IF scores[j].id = id THEN [id |-> id, score |-> value] ELSE scores[j]]
    ELSE Append(scores, [id |-> id, score |-> value])

\* (1 / (k + rank + 1)) * (1 + Math.log(1 + Math.max(0, positiveScore)))
bm25Weighted(result, rank) ==
    Fraction(BmWeight(result.bm25_score), FusionK + rank + 1)

\* (1 / (k + rank + 1)) * similarity, similarity = 1 - result.distance
vecWeighted(result, rank) ==
    Fraction(100 - result.distance, FusionK + rank + 1)

\* ftsResults.forEach((result, rank) => ..), from position rank + 1 on
RECURSIVE FtsScored(_, _, _)
FtsScored(scores, ftsResults, rank) ==
    IF rank >= Len(ftsResults) THEN scores
    ELSE LET result == ftsResults[rank + 1]
         IN FtsScored(ScoreSet(scores, result.rowid,
                               Plus(ScoreOf(scores, result.rowid),
                                    bm25Weighted(result, rank))),
                      ftsResults, rank + 1)

\* vecResults.forEach((result, rank) => ..)
RECURSIVE VecScored(_, _, _)
VecScored(scores, vecResults, rank) ==
    IF rank >= Len(vecResults) THEN scores
    ELSE LET result == vecResults[rank + 1]
         IN VecScored(ScoreSet(scores, result.chunk_id,
                               Plus(ScoreOf(scores, result.chunk_id),
                                    vecWeighted(result, rank))),
                      vecResults, rank + 1)

FusedScores(ftsResults, vecResults) ==
    VecScored(FtsScored(<< >>, ftsResults, 0), vecResults, 0)

\* the entry goes before its equals
RECURSIVE SortedInsertBeforeEquals(_, _)
SortedInsertBeforeEquals(sorted, entry) ==
    IF sorted = << >> THEN << entry >>
    ELSE IF AtLeast(entry.score, Head(sorted).score) THEN << entry >> \o sorted
    ELSE << Head(sorted) >> \o SortedInsertBeforeEquals(Tail(sorted), entry)

\* one entry put into a list sorted by descending score, behind its equals
RECURSIVE SortedInsert(_, _)
SortedInsert(sorted, entry) ==
    IF sorted = << >> THEN << entry >>
    ELSE IF Above(entry.score, Head(sorted).score) THEN << entry >> \o sorted
    ELSE << Head(sorted) >> \o SortedInsert(Tail(sorted), entry)

\* entries.sort((a, b) => b[1] - a[1]): stable, descending
RECURSIVE SortedDescending(_)
SortedDescending(entries) ==
    IF entries = << >> THEN << >>
    ELSE SortedInsert(SortedDescending(SubSeq(entries, 1, Len(entries) - 1)),
                      entries[Len(entries)])

\* a slice that keeps every entry
SliceAll(entries, limit) == entries

\* .slice(0, limit)
Slice(entries, limit) == SubSeq(entries, 1, Min(Len(entries), limit))

\* the ids of the first entries in the order of their insertion
RankedIdsUnsorted(ftsResults, vecResults, limit) ==
    LET top == Slice(FusedScores(ftsResults, vecResults), limit)
    IN [j \in 1..Len(top) |-> top[j].id]

\* Array.from(scores.entries()).sort(..).slice(0, limit).map((entry) => entry[0])
RankedIds(ftsResults, vecResults, limit) ==
    LET sorted == SortedDescending(FusedScores(ftsResults, vecResults))
        top == Slice(sorted, limit)
    IN [j \in 1..Len(top) |-> top[j].id]

\* rankedIds.map((id) => finalResults.find(..) or null).filter(Boolean)
RECURSIVE Hydrated(_, _)
Hydrated(rankedIds, finalResults) ==
    IF rankedIds = << >> THEN << >>
    ELSE LET found == { r \in finalResults : r.id = Head(rankedIds) } IN
         (IF found = { } THEN << >> ELSE << CHOOSE r \in found : TRUE >>)
         \o Hydrated(Tail(rankedIds), finalResults)

\* SELECT c.id, c.header, c.content, d.path, .. FROM chunks c JOIN docs d
\* ON c.doc_id = d.id WHERE c.id IN (..)
JoinedRows(ids) ==
    { [id |-> cd[1].id, header |-> cd[1].header, content |-> cd[1].content,
       path |-> cd[2].path, repo_owner |-> cd[2].repo_owner,
       repo_name |-> cd[2].repo_name, source_type |-> cd[2].source_type] :
      cd \in { x \in chunks \X docs : x[1].doc_id = x[2].id /\ x[1].id \in ids } }

\* the answers of the two indexes, the fusion and the hydration
Hybrid(ftsResults, vecResults, limit) ==
    LET rankedIds == RankedIds(ftsResults, vecResults, limit)
        results == IF Len(rankedIds) = 0 THEN << >>
                   ELSE Hydrated(rankedIds,
                                 JoinedRows({ rankedIds[j] : j \in 1..Len(rankedIds) }))
    IN [done |-> TRUE,
        fts |-> { ftsResults[j].rowid : j \in 1..Len(ftsResults) },
        vec |-> { vecResults[j].chunk_id : j \in 1..Len(vecResults) },
        ranked |-> rankedIds,
        results |-> results,
        rows |-> { results[j] : j \in 1..Len(results) }]

\* searchHybrid(query, queryEmbedding, limit).  One synchronous call: it
\* reads one state of the store.
searchHybrid(query, queryEmbedding, limit) ==
    LET ftsKey == [f \in chunks_fts |-> << Bm25(query, f), f.rowid >>]
        vecKey == [e \in chunks_embeddings |->
                     << Distance(queryEmbedding, e), e.chunk_id >>]
        ftsRows == Limited(Ordered(chunks_fts, ftsKey), limit * 2)
        vecRows == Limited(Ordered(chunks_embeddings, vecKey), limit * 2)
        ftsResults == [j \in 1..Len(ftsRows) |->
                          [rowid |-> ftsRows[j].rowid,
                           bm25_score |-> Bm25(query, ftsRows[j])]]
        vecResults == [j \in 1..Len(vecRows) |->
                          [chunk_id |-> vecRows[j].chunk_id,
                           distance |-> Distance(queryEmbedding, vecRows[j])]]
    IN Hybrid(ftsResults, vecResults, limit)

\* a search with its query vector in hand reads the store
Search ==
    /\ lastSearch' = searchHybrid(Query("setup", 0, 5),
                                  Embed(Query("setup", 0, 5)), DefaultSearchLimit)
    /\ StoreUnchanged
    /\ UNCHANGED << query_embeddings_cache, runs, prior, service >>

(***************************************************************************)
(* The query-embedding cache of SqliteDocsRepository                       *)
(***************************************************************************)
\* what getCachedEmbedding returns on a miss: null
NoVector == EmbedWith("", EmptyQuery)

HasEntry(cache, hash) == \E e \in cache : e.query_hash = hash

\* access_count of the row of hash, 0 without one
AccessCount(cache, hash) ==
    IF HasEntry(cache, hash)
    THEN (CHOOSE e \in cache : e.query_hash = hash).access_count
    ELSE 0

\* getCachedEmbedding(hash): the value returned
getCachedEmbedding(cache, hash) ==
    IF HasEntry(cache, hash)
    THEN FromBlob((CHOOSE e \in cache : e.query_hash = hash).embedding)
    ELSE NoVector

\* a lookup that refreshes the time of the row and leaves its count
getCachedEmbeddingRowsRefreshing(cache, hash) ==
    { IF e.query_hash = hash THEN [e EXCEPT !.last_accessed = clock] ELSE e :
        e \in cache }

\* getCachedEmbedding(hash): the table afterwards
getCachedEmbeddingRows(cache, hash) ==
    { IF e.query_hash = hash
      THEN [e EXCEPT !.last_accessed = clock, !.access_count = @ + 1]
      ELSE e : e \in cache }

\* an upsert that writes every column anew on conflict
cacheEmbeddingReplacing(cache, hash, text, model, embedding) ==
    { e \in cache : e.query_hash # hash } \cup
    { [query_hash |-> hash, query_text |-> Substring(text, MaxCachedText),
       model |-> model, embedding |-> ToBlob(embedding),
       last_accessed |-> clock, access_count |-> AccessCount(cache, hash) + 1] }

\* cacheEmbedding(hash, text, model, embedding): the table afterwards
cacheEmbedding(cache, hash, text, model, embedding) ==
    IF HasEntry(cache, hash)
    THEN { IF e.query_hash = hash
           THEN [e EXCEPT !.last_accessed = clock, !.access_count = @ + 1]
           ELSE e : e \in cache }
    ELSE cache \cup
         { [query_hash |-> hash, query_text |-> Substring(text, MaxCachedText),
            model |-> model, embedding |-> ToBlob(embedding),
            last_accessed |-> clock, access_count |-> 1] }

\* the sets of rows SELECT query_hash .. ORDER BY last_accessed ASC LIMIT k can
\* give: among rows of one time any may come first
RECURSIVE OldestSets(_, _)
OldestSets(cache, k) ==
    IF k <= 0 \/ cache = { } THEN { { } }
    ELSE LET times == { e.last_accessed : e \in cache }
             t == CHOOSE x \in times : \A y \in times : x <= y
             first == { e \in cache : e.last_accessed = t }
         IN IF Cardinality(first) <= k
            THEN { first \cup D : D \in OldestSets(cache \ first, k - Cardinality(first)) }
            ELSE { D \in SUBSET first : Cardinality(D) = k }

\* the sets of rows an ORDER BY last_accessed DESC LIMIT k can give
RECURSIVE NewestSets(_, _)
NewestSets(cache, k) ==
    IF k <= 0 \/ cache = { } THEN { { } }
    ELSE LET times == { e.last_accessed : e \in cache }
             t == CHOOSE x \in times : \A y \in times : x >= y
             last == { e \in cache : e.last_accessed = t }
         IN IF Cardinality(last) <= k
            THEN { last \cup D : D \in NewestSets(cache \ last, k - Cardinality(last)) }
            ELSE { D \in SUBSET last : Cardinality(D) = k }

\* a cleanup that removes the rows accessed last
cleanupNewest(cache) ==
    LET count == Cardinality(cache)
        limit == IF count > CacheLimit THEN count - CacheLimit ELSE 0
    IN { cache \ D : D \in NewestSets(cache, limit) }

\* cleanup(): the tables it can leave
cleanup(cache) ==
    LET count == Cardinality(cache)
        limit == IF count > CacheLimit THEN count - CacheLimit ELSE 0
    IN { cache \ D : D \in OldestSets(cache, limit) }

\* cleanupCache() of the single-file server: LIMIT (SELECT COUNT(*) - 1000 ..),
\* and a negative LIMIT is no limit
cleanupCache(cache) ==
    LET limit == Cardinality(cache) - CacheLimit
    IN IF limit < 0 THEN { { } }
       ELSE { cache \ D : D \in OldestSets(cache, limit) }

(***************************************************************************)
(* Search requests                                                         *)
(***************************************************************************)
Asks == 1..MaxAsks
Servers == {"hexagonal", "hexagonal-cached", "legacy"}

IdleAsk ==
    [pc |-> "idle", server |-> "", query |-> EmptyQuery, limit |-> 0,
     model |-> "", hash |-> QueryHash("", EmptyQuery), embedding |-> NoVector,
     hit |-> FALSE, calls |-> 0, result |-> NoSearch]

NoProbe == [op |-> "none"]

\* the state a search request leaves as it is
AskFrame ==
    /\ StoreUnchanged
    /\ lastSearch' = NoSearch
    /\ probe' = NoProbe
    /\ UNCHANGED << runs, prior, clock, active >>

\* execute({ query, limit }) / the ask_knowledge branch of the request
\* handler, up to the first await
AskExecute(a, query, limit) ==
    /\ asks[a].pc = "idle"
    /\ \A b \in 1..(a - 1) : asks[b].pc # "idle"
    /\ LET model == ProviderModel(active.provider)
           started == [asks[a] EXCEPT !.server = active.server, !.query = query,
                                      !.limit = limit, !.model = model]
       IN IF query = EmptyQuery
          THEN /\ asks' = [asks EXCEPT ![a] = [started EXCEPT !.pc = "error"]]
               /\ UNCHANGED query_embeddings_cache
          ELSE IF active.server = "hexagonal"
          THEN /\ asks' = [asks EXCEPT ![a] = [started EXCEPT !.pc = "embed", !.calls = 1]]
               /\ UNCHANGED query_embeddings_cache
          ELSE IF active.server = "hexagonal-cached"
          THEN LET hash == QueryHash(model, query) IN
               /\ asks' = [asks EXCEPT ![a] =
                             [started EXCEPT
                                !.pc = "got", !.hash = hash,
                                !.hit = HasEntry(query_embeddings_cache, hash),
                                !.embedding =
                                    getCachedEmbedding(query_embeddings_cache, hash)]]
               /\ query_embeddings_cache' =
                     getCachedEmbeddingRows(query_embeddings_cache, hash)
          ELSE LET hash == QueryHash(EmbeddingModel, query) IN
               IF CacheHit(query_embeddings_cache, query)
               THEN /\ asks' = [asks EXCEPT ![a] =
                                  [started EXCEPT
                                     !.pc = "got", !.hash = hash, !.hit = TRUE,
                                     !.embedding =
                                         CachedEmbedding(query_embeddings_cache, query)]]
                    /\ query_embeddings_cache' =
                          CacheTouched(query_embeddings_cache, query)
               ELSE /\ asks' = [asks EXCEPT ![a] =
                                  [started EXCEPT !.pc = "embed", !.hash = hash,
                                                  !.calls = 1]]
                    /\ UNCHANGED query_embeddings_cache
    /\ AskFrame

\* after the await of the cache lookup: with a vector the store is searched,
\* without one the provider is called
AskGot(a) ==
    /\ asks[a].pc = "got"
    /\ asks' = [asks EXCEPT ![a] =
                  IF asks[a].embedding # NoVector
                  THEN [@ EXCEPT !.pc = "done",
                                 !.result = searchHybrid(asks[a].query, asks[a].embedding,
                                                      asks[a].limit)]
                  ELSE [@ EXCEPT !.pc = "embed", !.calls = @ + 1]]
    /\ UNCHANGED query_embeddings_cache
    /\ AskFrame

\* the provider returns the vector: the use case without cache searches; the
\* others store the vector under the hash
AskEmbedded(a) ==
    /\ asks[a].pc = "embed"
    /\ LET ask == asks[a]
           embedding == Embed(ask.query)
       IN IF ask.server = "hexagonal"
          THEN /\ asks' = [asks EXCEPT ![a] =
                             [@ EXCEPT !.pc = "done", !.embedding = embedding,
                                       !.result = searchHybrid(ask.query, embedding,
                                                               ask.limit)]]
               /\ UNCHANGED query_embeddings_cache
          ELSE /\ asks' = [asks EXCEPT ![a] =
                             [@ EXCEPT !.pc = "put", !.embedding = embedding]]
               /\ query_embeddings_cache' =
                     IF ask.server = "hexagonal-cached"
                     THEN cacheEmbedding(query_embeddings_cache, ask.hash, ask.query,
                                         ask.model, embedding)
                     ELSE CacheStored(query_embeddings_cache, ask.query, embedding)
    /\ AskFrame

\* the provider raises
AskEmbedRaise(a) ==
    /\ asks[a].pc = "embed"
    /\ asks' = [asks EXCEPT ![a].pc = "error"]
    /\ UNCHANGED query_embeddings_cache
    /\ AskFrame

\* after the await of the cache write: the store is searched
AskPut(a) ==
    /\ asks[a].pc = "put"
    /\ asks' = [asks EXCEPT ![a] =
                  [@ EXCEPT !.pc = "done",
                            !.result = searchHybrid(asks[a].query, asks[a].embedding,
                                                      asks[a].limit)]]
    /\ UNCHANGED query_embeddings_cache
    /\ AskFrame

\* a second of the clock passes
Tick ==
    /\ clock < MaxClock
    /\ clock' = clock + 1
    /\ lastSearch' = NoSearch
    /\ probe' = NoProbe
    /\ StoreUnchanged
    /\ UNCHANGED << query_embeddings_cache, runs, prior, active, asks >>

\* the server process starts: what the old process was doing is gone, the
\* embedding provider is chosen, and the single-file server cleans the cache
Startup(server, provider) ==
    /\ active' = [server |-> server, provider |-> provider]
    /\ asks' = [a \in Asks |->
                  IF asks[a].pc \in {"got", "embed", "put"}
                  THEN [asks[a] EXCEPT !.pc = "aborted"] ELSE asks[a]]
    /\ runs' = [r \in Runs |->
                  IF runs[r].st \in {"listing", "running"}
                  THEN [runs[r] EXCEPT !.st = "aborted"] ELSE runs[r]]
    /\ IF server = "legacy"
       THEN /\ query_embeddings_cache' \in cleanupCache(query_embeddings_cache)
            /\ probe' = [op |-> "cleanupCache"]
       ELSE /\ UNCHANGED query_embeddings_cache
            /\ probe' = NoProbe
    /\ lastSearch' = NoSearch
    /\ StoreUnchanged
    /\ UNCHANGED << prior, clock >>

\* cleanup() of the repository is called
Cleanup ==
    /\ active.server # "legacy"
    /\ query_embeddings_cache' \in cleanup(query_embeddings_cache)
    /\ probe' = [op |-> "cleanup"]
    /\ lastSearch' = NoSearch
    /\ StoreUnchanged
    /\ UNCHANGED << runs, prior, clock, active, asks >>

\* cacheEmbedding(hash, text, model, embedding) is called
Put(model, query, embedding) ==
    /\ active.server = "hexagonal-cached"
    /\ AccessCount(query_embeddings_cache, QueryHash(model, query)) < MaxAccess
    /\ query_embeddings_cache' =
          cacheEmbedding(query_embeddings_cache, QueryHash(model, query), query,
                         model, embedding)
    /\ probe' = [op |-> "put", hash |-> QueryHash(model, query), text |-> query,
                 model |-> model, embedding |-> embedding]
    /\ lastSearch' = NoSearch
    /\ StoreUnchanged
    /\ UNCHANGED << runs, prior, clock, active, asks >>

\* getCachedEmbedding(hash) is called
Get(hash) ==
    /\ active.server = "hexagonal-cached"
    /\ AccessCount(query_embeddings_cache, hash) < MaxAccess
    /\ query_embeddings_cache' = getCachedEmbeddingRows(query_embeddings_cache, hash)
    /\ probe' = [op |-> "get", hash |-> hash,
                 embedding |-> getCachedEmbedding(query_embeddings_cache, hash)]
    /\ lastSearch' = NoSearch
    /\ StoreUnchanged
    /\ UNCHANGED << runs, prior, clock, active, asks >>

\* a handler that reports a search without rows as a failure
handleAskKnowledgeFailing(results) ==
    IF Len(results) = 0
    THEN [isError |-> TRUE, text |-> "No results found matching your query.",
          rows |-> 0]
    ELSE [isError |-> FALSE, text |-> "### Search Results for:", rows |-> Len(results)]

\* handleToolCall('ask_knowledge', args) with the rows the use case returned
handleAskKnowledge(results) ==
    IF Len(results) = 0
    THEN [isError |-> FALSE, text |-> "No results found matching your query.",
          rows |-> 0]
    ELSE [isError |-> FALSE, text |-> "### Search Results for:", rows |-> Len(results)]

\* BatchProcessor.calculateOptimalBatchSize(totalItems) with its defaults
Size ==
    /\ probe.op = "items"
    /\ probe' = [op |-> "calculateOptimalBatchSize", totalItems |-> probe.totalItems,
                 batchSize |-> calculateOptimalBatchSize(probe.totalItems,
                                                         DefaultMinBatch,
                                                         DefaultMaxBatch)]
    /\ lastSearch' = NoSearch
    /\ StoreUnchanged
    /\ UNCHANGED << query_embeddings_cache, runs, prior, clock, active, asks >>

\* searchHybrid works on the answers the two indexes gave, and the tool
\* handler answers with the rows
Fuse ==
    /\ probe.op = "indexes"
    /\ probe' = [op |-> "searchHybrid", ftsResults |-> probe.ftsResults,
                 vecResults |-> probe.vecResults, limit |-> probe.limit,
                 result |-> Hybrid(probe.ftsResults, probe.vecResults, probe.limit),
                 reply |-> handleAskKnowledge(
                              Hybrid(probe.ftsResults, probe.vecResults,
                                     probe.limit).results)]
    /\ lastSearch' = NoSearch
    /\ StoreUnchanged
    /\ UNCHANGED << query_embeddings_cache, runs, prior, clock, active, asks >>

(***************************************************************************)
(* Initial states: the store a previous complete ingestion of the          *)
(* repository left (pr[p] is the text then ingested for path p, NoText     *)
(* for a path never ingested), an empty query cache, no request yet.       *)
(***************************************************************************)
PriorPaths(pr) == { p \in DOMAIN pr : pr[p] # NoText }
PriorDocId(pr, p) == Cardinality({ q \in PriorPaths(pr) : q <= p })

RECURSIVE PriorChunkBase(_, _)
PriorChunkBase(pr, p) ==
    IF p <= 1 THEN 0
    ELSE PriorChunkBase(pr, p - 1) +
         (IF pr[p - 1] # NoText THEN Len(smartChunk(pr[p - 1], DefaultMaxChunkSize)) ELSE 0)

PriorChunkSlots(pr) ==
    { << p, j >> \in (DOMAIN pr) \X (1..4) :
        pr[p] # NoText /\ j <= Len(smartChunk(pr[p], DefaultMaxChunkSize)) }

PriorChunk(pr, slot) == smartChunk(pr[slot[1]], DefaultMaxChunkSize)[slot[2]]
PriorChunkId(pr, slot) == PriorChunkBase(pr, slot[1]) + slot[2]

\* the store of a previous ingestion under the server and provider of a startup
InitStore(pr, server, provider) ==
    /\ active = [server |-> server, provider |-> provider]
    /\ prior = pr
    /\ docs = { [id |-> PriorDocId(pr, p), repo_owner |-> GithubOwner,
                 repo_name |-> RepoName, path |-> p, sha |-> BlobSha(pr[p]),
                 content |-> pr[p], source_type |-> "github"] : p \in PriorPaths(pr) }
    /\ docSeq = Cardinality(PriorPaths(pr))
    /\ chunks = { ChunkRow(PriorChunkId(pr, s), PriorDocId(pr, s[1]), PriorChunk(pr, s)) :
                  s \in PriorChunkSlots(pr) }
    /\ chunks_fts = { FtsRow(PriorChunkId(pr, s), PriorChunk(pr, s)) :
                      s \in PriorChunkSlots(pr) }
    /\ chunks_embeddings =
          { [chunk_id |-> PriorChunkId(pr, s),
             embedding |-> Embed(EmbeddingText(PriorChunk(pr, s)))] :
            s \in PriorChunkSlots(pr) }
    /\ chunkSeq = Cardinality(PriorChunkSlots(pr))
    /\ runs = [r \in Runs |-> IdleRun]
    /\ lastSearch = NoSearch

InitWith(pr) ==
    /\ InitStore(pr, "hexagonal", "ollama")
    /\ query_embeddings_cache = { }
    /\ clock = 0
    /\ asks = [a \in Asks |-> IdleAsk]
    /\ probe = NoProbe

\* the listings over the paths 1..m: up to m files, holding texts of T
Trees(m, T) == UNION { [1..n -> T] : n \in 0..m }

InitOver(m, T) == \E pr \in [1..m -> T \cup {NoText}] : InitWith(pr)

RequestStep(R, M, T) ==
    \/ \E r \in R, mode \in M : \E owner \in {"", OwnerOf(mode)} : Execute(r, mode, owner)
    \/ \E r \in R : ListingRaise(r)
    \/ \E r \in R, tree \in T : ListingResolve(r, tree)

UseCaseStep(R) ==
    \/ \E r \in R : \E k \in 1..Len(runs[r].items) : FetchRaise(r, k)
    \/ \E r \in R : \E k \in 1..Len(runs[r].items) : FetchResolve(r, k)
    \/ \E r \in R : \E k \in 1..Len(runs[r].items) : Chunked(r, k)
    \/ \E r \in R : \E k \in 1..Len(runs[r].items) : Embedded(r, k)
    \/ \E r \in R : \E k \in 1..Len(runs[r].items) : EmbedRaise(r, k)

StoreFailure(R) ==
    \E r \in R : \E k \in 1..Len(runs[r].items) : SaveChunksRaise(r, k)

LegacyStep(R) ==
    \/ \E r \in R : \E k \in 1..Len(runs[r].items) : LegacyFetched(r, k)
    \/ \E r \in R : \E k \in 1..Len(runs[r].items) : LegacyEmbedded(r, k)

(***************************************************************************)
(* Spec: requests of every kind over a small repository, with searches     *)
(***************************************************************************)
Init == InitOver(MaxPaths, TextIds)

Next ==
    \/ RequestStep(Runs, Modes, Trees(MaxPaths, TextIds))
    \/ \E r \in Runs : BatchAdvance(r)
    \/ UseCaseStep(Runs)
    \/ StoreFailure(Runs)
    \/ LegacyStep(Runs)
    \/ Search

Spec == Init /\ [][Next]_vars

(***************************************************************************)
(* SpecUpsert: overlapping requests of the use cases on one path           *)
(***************************************************************************)
UpsertTexts == {"short", "guide"}

NextUpsert ==
    \/ RequestStep(Runs, {"repository", "filesystem"}, Trees(1, UpsertTexts))
    \/ \E r \in Runs : BatchAdvance(r)
    \/ UseCaseStep(Runs)
    \/ StoreFailure(Runs)

SpecUpsert == InitOver(1, UpsertTexts) /\ [][NextUpsert]_vars

(***************************************************************************)
(* SpecBatch: one request over a tree of up to MaxTreeFiles files, into    *)
(* an empty store                                                          *)
(***************************************************************************)
BatchText(k) ==
    CASE k = 1 -> "intro"
      [] k = 2 -> "guide"
      [] k = DefaultMinBatch + 1 -> "intro"
      [] OTHER -> "short"

BatchTrees == { [k \in 1..n |-> BatchText(k)] : n \in 0..MaxTreeFiles }

NextBatch ==
    \/ RequestStep({1}, Modes, BatchTrees)
    \/ BatchAdvance(1)
    \/ UseCaseStep({1})
    \/ LegacyStep({1})

SpecBatch == InitWith(<< >>) /\ [][NextBatch]_vars

(***************************************************************************)
(* SpecAsk: search requests that overlap, under each server and provider,  *)
(* over the store of one ingested document                                 *)
(***************************************************************************)
AskQueries == { EmptyQuery, Query("setup", 0, 5), Query("notes", 0, MaxCachedText + 100) }
AskLimits == { 1, DefaultSearchLimit }

AskStep(A, Q, L) ==
    \/ \E a \in A, query \in Q, limit \in L : AskExecute(a, query, limit)
    \/ \E a \in A : AskGot(a)
    \/ \E a \in A : AskEmbedded(a)
    \/ \E a \in A : AskEmbedRaise(a)
    \/ \E a \in A : AskPut(a)

InitAsk ==
    /\ \E server \in Servers, provider \in Providers :
          InitStore(<< "guide" >>, server, provider)
    /\ query_embeddings_cache = { }
    /\ clock = 0
    /\ asks = [a \in Asks |-> IdleAsk]
    /\ probe = NoProbe

NextAsk ==
    \/ AskStep(Asks, AskQueries, AskLimits)
    \/ Tick

SpecAsk == InitAsk /\ [][NextAsk]_vars

(***************************************************************************)
(* SpecRequests: one ingestion request and one search request that         *)
(* overlap, under each server and provider                                 *)
(***************************************************************************)
NextRequests ==
    \/ AskStep({1}, AskQueries, {DefaultSearchLimit})
    \/ RequestStep({1}, Modes, Trees(1, UpsertTexts))
    \/ BatchAdvance(1)
    \/ UseCaseStep({1})
    \/ StoreFailure({1})
    \/ LegacyStep({1})

SpecRequests == InitAsk /\ [][NextRequests]_vars

(***************************************************************************)
(* SpecCache: the cache operations of the repository, searches one after   *)
(* the other and restarts, from a cache that earlier searches filled       *)
(***************************************************************************)
\* the entry search number i left, the entries of 1..n searches made in
\* the seconds before the start, width of them per second
OldQuery(i) == Query("old", i, 5)
OldEntry(i, n, width) ==
    [query_hash |-> QueryHash(EmbeddingModel, OldQuery(i)),
     query_text |-> OldQuery(i), model |-> EmbeddingModel,
     embedding |-> ToBlob(EmbedWith(EmbeddingModel, OldQuery(i))),
     last_accessed |-> 0 - ((n - i) \div width), access_count |-> 1]
OldEntries(n, width) == { OldEntry(i, n, width) : i \in 1..n }

CacheQueries == { OldQuery(1), Query("setup", 0, 5) }
CacheModels == { EmbeddingModel, LocalModel }
NewQueries == { Query("new", i, 5) : i \in 1..MaxOverflow }

InitCache ==
    /\ \E server \in Servers : InitStore(<< "guide" >>, server, "ollama")
    /\ \E n \in { CacheLimit - 1, CacheLimit } :
          query_embeddings_cache = OldEntries(n, MaxOverflow)
    /\ clock = 0
    /\ asks = [a \in Asks |-> IdleAsk]
    /\ probe = NoProbe

CacheStep ==
    \/ \E query \in NewQueries :
          /\ Cardinality(query_embeddings_cache) < CacheLimit + MaxOverflow
          /\ ~ HasEntry(query_embeddings_cache, QueryHash(EmbeddingModel, query))
          /\ Put(EmbeddingModel, query, EmbedWith(EmbeddingModel, query))
    \/ Cleanup

NextCache ==
    \/ CacheStep
    \/ AskStep({1}, CacheQueries, {DefaultSearchLimit})
    \/ \E provider \in Providers : Startup(active.server, provider)

SpecCache == InitCache /\ [][NextCache]_vars

(***************************************************************************)
(* SpecEntries: getCachedEmbedding and cacheEmbedding called with every    *)
(* key and vector, on the cache of a new database                          *)
(***************************************************************************)
InitEntries ==
    /\ InitStore(<< "guide" >>, "hexagonal-cached", "ollama")
    /\ query_embeddings_cache = { }
    /\ clock = 0
    /\ asks = [a \in Asks |-> IdleAsk]
    /\ probe = NoProbe

NextEntries ==
    \/ \E model \in CacheModels :
          \E embedding \in { EmbedWith(model, q) : q \in CacheQueries } :
             Put(model, Query("setup", 0, 5), embedding)
    \/ \E model \in CacheModels : Get(QueryHash(model, Query("setup", 0, 5)))
    \/ Tick

SpecEntries == InitEntries /\ [][NextEntries]_vars

(***************************************************************************)
(* SpecSearch: searchHybrid on every answer the two indexes can give over  *)
(* the chunks of two ingested documents                                    *)
(***************************************************************************)
Bm25Scores == { -5, -1, 2 }
Distances == { 0, 10, 100, 150 }

\* the lists of up to n rows over ids, the values of field in ascending order
RankedLists(ids, values, n) ==
    { l \in UNION { [1..len -> ids \X values] : len \in 0..Min(n, Cardinality(ids)) } :
        /\ \A i \in 1..Len(l), j \in 1..Len(l) : l[i][1] = l[j][1] => i = j
        /\ \A i \in 1..(Len(l) - 1) : l[i][2] <= l[i + 1][2] }

InitSearch ==
    /\ InitStore(<< "guide", "intro" >>, "hexagonal", "ollama")
    /\ query_embeddings_cache = { }
    /\ clock = 0
    /\ asks = [a \in Asks |-> IdleAsk]
    /\ \E limit \in 1..MaxLimit :
       \E fts \in RankedLists({ c.id : c \in chunks }, Bm25Scores, limit * 2),
          vec \in RankedLists({ c.id : c \in chunks }, Distances, limit * 2) :
          probe = [op |-> "indexes", limit |-> limit,
                   ftsResults |-> [j \in 1..Len(fts) |->
                                     [rowid |-> fts[j][1], bm25_score |-> fts[j][2]]],
                   vecResults |-> [j \in 1..Len(vec) |->
                                     [chunk_id |-> vec[j][1], distance |-> vec[j][2]]]]

SpecSearch == InitSearch /\ [][Fuse]_vars

(***************************************************************************)
(* SpecSize: calculateOptimalBatchSize on the item counts 0..MaxItems and  *)
(* on ten thousand items                                                   *)
(***************************************************************************)
ItemCounts == 0..MaxItems \cup { 10000 }

InitSize ==
    /\ InitStore(<< >>, "hexagonal", "ollama")
    /\ query_embeddings_cache = { }
    /\ clock = 0
    /\ asks = [a \in Asks |-> IdleAsk]
    /\ \E n \in ItemCounts : probe = [op |-> "items", totalItems |-> n]

SpecSize == InitSize /\ [][Size]_vars

(***************************************************************************)
(* smartChunk line by line.  The text is the lines text.split('\n') gives  *)
(* (at least one: the empty text is one empty line); the loop takes one    *)
(* line per step.                                                          *)
(***************************************************************************)
SplitAlphabet ==
    { Blank, Padded(2, 3, 3, 0), Body(2, 30), Body(3, 60), Body(7, 60),
      Padded(3, 60, 2, 1), Heading("mid", "Setup", 8), Heading("top", "Usage", 7) }

SplitTexts == UNION { [1..n -> SplitAlphabet] : n \in 1..MaxLines }

SplitSizes == { 4, 6, DefaultMaxChunkSize }

SplitIdle ==
    /\ lastSearch' = NoSearch
    /\ StoreUnchanged
    /\ UNCHANGED << query_embeddings_cache, runs, prior, clock, active, asks >>

\* the guard on empty and white-space-only text, and the initial state
SplitStart ==
    /\ probe.op = "text"
    /\ probe' = IF Trim(probe.lines) = << >>
                THEN [op |-> "smartChunk", lines |-> probe.lines,
                      maxChunkSize |-> probe.maxChunkSize, chunks |-> << >>]
                ELSE [op |-> "split", lines |-> probe.lines,
                      maxChunkSize |-> probe.maxChunkSize, i |-> 0,
                      s |-> SplitterStart]
    /\ SplitIdle

\* one turn of the loop over the lines
SplitNext ==
    /\ probe.op = "split"
    /\ probe.i < Len(probe.lines)
    /\ probe' = [probe EXCEPT !.i = @ + 1,
                              !.s = SplitLine(@, probe.lines[probe.i + 1],
                                              probe.maxChunkSize)]
    /\ SplitIdle

\* "Add the last chunk if it exists", and the return
SplitEnd ==
    /\ probe.op = "split"
    /\ probe.i = Len(probe.lines)
    /\ probe' = [op |-> "smartChunk", lines |-> probe.lines,
                 maxChunkSize |-> probe.maxChunkSize,
                 chunks |-> SplitLast(probe.s)]
    /\ SplitIdle

InitSplit ==
    /\ InitStore(<< >>, "hexagonal", "ollama")
    /\ query_embeddings_cache = { }
    /\ clock = 0
    /\ asks = [a \in Asks |-> IdleAsk]
    /\ \E ls \in SplitTexts, m \in SplitSizes :
          probe = [op |-> "text", lines |-> ls, maxChunkSize |-> m]

NextSplit == SplitStart \/ SplitNext \/ SplitEnd

SpecSplit == InitSplit /\ [][NextSplit]_vars

(***************************************************************************)
(* Properties of the batch loop                                            *)
(***************************************************************************)
Started(item) == item.pc # "pending"
InFlight(run) == { k \in 1..Len(run.items) : Started(run.items[k]) /\ ~Settled(run.items[k]) }
BatchOf(run, k) == (k - 1) \div run.batchSize
Done(run) == { k \in 1..Len(run.items) : run.items[k].pc = "done" }
Failed(run) == { k \in 1..Len(run.items) : run.items[k].pc = "failed" }

\* the chunk set the store holds for a document: what the chunk table, the
\* lexical index and the vector index each hold for it
StoredChunks(docId) ==
    { << c.header, c.content >> : c \in { x \in chunks : x.doc_id = docId } }
StoredFts(docId) ==
    { << f.header, f.content >> : f \in { x \in chunks_fts : x.rowid \in ChunkIdsOf(docId) } }
StoredVectors(docId) ==
    { e.embedding : e \in { x \in chunks_embeddings : x.chunk_id \in ChunkIdsOf(docId) } }

\* the complete chunk set of a text
FullChunks(t) ==
    IF t = NoText THEN { }
    ELSE { << smartChunk(t, DefaultMaxChunkSize)[j].header,
              smartChunk(t, DefaultMaxChunkSize)[j].content >> :
           j \in 1..Len(smartChunk(t, DefaultMaxChunkSize)) }
FullVectors(t) ==
    IF t = NoText THEN { }
    ELSE { Embed(EmbeddingText(smartChunk(t, DefaultMaxChunkSize)[j])) :
           j \in 1..Len(smartChunk(t, DefaultMaxChunkSize)) }

HoldsExactly(docId, t) ==
    /\ StoredChunks(docId) = FullChunks(t)
    /\ StoredFts(docId) = FullChunks(t)
    /\ StoredVectors(docId) = FullVectors(t)
    /\ Cardinality(ChunkIdsOf(docId)) = Cardinality(FullChunks(t))

\* C3: no item of a later batch has started while an item of an earlier
\* batch is unsettled, and a settled item that succeeded has its document
\* upserted and its chunk set replaced
C3_BatchesInSequence ==
    \A r \in Runs :
      \A j \in 1..Len(runs[r].items), k \in 1..Len(runs[r].items) :
         /\ BatchOf(runs[r], j) < BatchOf(runs[r], k) /\ Started(runs[r].items[k])
         => /\ Settled(runs[r].items[j])
            /\ runs[r].items[j].pc = "done"
               => HoldsExactly(runs[r].items[j].docId, runs[r].items[j].text)

\* an item of the second batch is being fetched after a first batch in
\* which one item failed and another one stored its two chunks
C3_Witness ==
    \E j \in 1..Len(runs[1].items), k \in 1..Len(runs[1].items) :
       /\ runs[1].mode = "repository"
       /\ Len(runs[1].items) > DefaultMinBatch
       /\ runs[1].items[DefaultMinBatch + 1].pc = "fetch"
       /\ runs[1].items[j].pc = "failed"
       /\ runs[1].items[k].pc = "done" /\ runs[1].items[k].written = 2

\* the batch size the request computes
ComputedBatchSize(run) ==
    IF run.mode = "repository"
    THEN calculateOptimalBatchSize(Len(run.items), DefaultMinBatch, DefaultMaxBatch)
    ELSE IF run.mode = "legacy" THEN LegacyBatchSize ELSE 1

\* C4: the items started and not settled are never more than the batch size
C4_InFlightBounded ==
    \A r \in Runs : Cardinality(InFlight(runs[r])) <= ComputedBatchSize(runs[r])

\* a full batch in flight, its items at different awaits
C4_Witness ==
    /\ Cardinality(InFlight(runs[1])) = DefaultMinBatch
    /\ Len(runs[1].items) > DefaultMinBatch
    /\ \E j \in InFlight(runs[1]), k \in InFlight(runs[1]) :
          runs[1].items[j].pc = "embed" /\ runs[1].items[k].pc = "fetch"

\* C5: the step in which an item fails leaves the request running (or lets
\* it return), changes no other item (in the for loop it starts the next
\* file), and a request returns only with every item attempted and never
\* ends in an error once it has listed its files
C5_ItemFailuresContained ==
    [][\A r \in Runs :
          /\ \A k \in 1..Len(runs[r].items) :
                runs[r].items[k].pc # "failed" /\ runs'[r].items[k].pc = "failed"
                => /\ runs'[r].st \in {"running", "returned"}
                   /\ \A j \in 1..Len(runs[r].items) \ {k} :
                         \/ runs'[r].items[j] = runs[r].items[j]
                         \/ /\ runs[r].mode = "filesystem" /\ j = k + 1
                            /\ runs'[r].items[j].pc = "fetch"
          /\ runs'[r].st = "returned"
             => \A k \in 1..Len(runs'[r].items) : Settled(runs'[r].items[k])
          /\ runs'[r].st = "error" => runs'[r].items = << >>
      ]_vars

\* a returned request of two batches: one item failed in the fetch, one in
\* an embedding, items of the same batch and the item of the next batch done
C5_Witness ==
    /\ runs[1].st = "returned"
    /\ runs[1].mode = "repository"
    /\ Len(runs[1].items) = DefaultMinBatch + 1
    /\ runs[1].items[1].pc = "failed" /\ runs[1].items[1].docId # 0
    /\ runs[1].items[3].pc = "failed" /\ runs[1].items[3].docId = 0
    /\ runs[1].items[2].pc = "done"
    /\ runs[1].items[DefaultMinBatch + 1].pc = "done"

\* C6: the counts a use case returns: the items whose chunk set was replaced,
\* the items listed, the chunks the store holds for the replaced ones
RECURSIVE PersistedChunks(_, _)
PersistedChunks(run, K) ==
    IF K = { } THEN 0
    ELSE LET k == CHOOSE x \in K : TRUE IN
         Cardinality(ChunkIdsOf(run.items[k].docId)) + PersistedChunks(run, K \ {k})

DocRows(D, owner, path) ==
    { d \in D : d.repo_owner = owner /\ d.repo_name = RepoName /\ d.path = path }

\* the chunk, lexical and vector rows of the documents of an identity
ChunkRowsOf(owner, path) ==
    { c \in chunks : \E d \in DocRows(docs, owner, path) : c.doc_id = d.id }
FtsRowsOf(owner, path) ==
    { f \in chunks_fts : \E c \in ChunkRowsOf(owner, path) : c.id = f.rowid }
VectorRowsOf(owner, path) ==
    { e \in chunks_embeddings : \E c \in ChunkRowsOf(owner, path) : c.id = e.chunk_id }

\* C7: the step in which the fetch of an item raises changes none of the
\* rows of its document: docs, chunks, lexical entries, vectors
C7_FetchFailureLeavesStore ==
    [][\A r \in Runs : \A k \in 1..Len(runs[r].items) :
          runs[r].items[k].pc = "fetch" /\ runs'[r].items[k].pc = "failed"
          => /\ DocRows(docs', runs[r].owner, k) = DocRows(docs, runs[r].owner, k)
             /\ ChunkRowsOf(runs[r].owner, k)' = ChunkRowsOf(runs[r].owner, k)
             /\ FtsRowsOf(runs[r].owner, k)' = FtsRowsOf(runs[r].owner, k)
             /\ VectorRowsOf(runs[r].owner, k)' = VectorRowsOf(runs[r].owner, k)
             /\ docSeq' = docSeq /\ chunkSeq' = chunkSeq
      ]_vars

\* the fetch raised in the re-ingestion of a document: its row and its two
\* chunks are the earlier ones
C7_Witness ==
    \E r \in Runs :
       /\ Len(runs[r].items) = 1
       /\ runs[r].items[1].pc = "failed" /\ runs[r].items[1].docId = 0
       /\ runs[r].owner = GithubOwner
       /\ prior[1] = "guide" /\ HoldsExactly(1, "guide")
       /\ \A d \in docs : d.content = "guide"

UniqueDocs(D) ==
    \A a \in D, b \in D : (SameKey(a, b) \/ a.id = b.id) => a = b

\* C9: the documents are unique by (owner, repository, path) and by id, and
\* a saveDoc of an identity that exists adds no row, keeps the id, returns it
\* and leaves the row with the new hash, content and source kind; a saveDoc
\* of a new identity adds one row under the next id
C9_UpsertInPlace ==
    [][/\ UniqueDocs(docs')
       /\ \A r \in Runs : \A k \in 1..Len(runs[r].items) :
             runs[r].items[k].docId = 0 /\ runs'[r].items[k].docId # 0
             => LET doc == DocOf(runs[r], runs[r].items[k])
                    was == DocRows(docs, doc.repo_owner, doc.path)
                    now == DocRows(docs', doc.repo_owner, doc.path)
                IN /\ Cardinality(now) = 1
                   /\ \A d \in now :
                         /\ d.id = runs'[r].items[k].docId
                         /\ d.sha = doc.sha /\ d.content = doc.content
                         /\ d.source_type = doc.source_type
                         /\ \A w \in was : w.id = d.id
                   /\ Cardinality(docs') = Cardinality(docs) + (IF was = { } THEN 1 ELSE 0)
                   /\ docs' \ now = docs \ was
      ]_vars

\* two requests have upserted the same identity one after the other while
\* both were running: one row, its id the one both hold
C9_Witness ==
    /\ runs[1].st = "running" /\ runs[2].st = "running"
    /\ Len(runs[1].items) = 1 /\ Len(runs[2].items) = 1
    /\ runs[1].items[1].docId # 0
    /\ runs[2].items[1].docId = runs[1].items[1].docId
    /\ runs[1].items[1].text # runs[2].items[1].text
    /\ Cardinality(docs) = 1

(***************************************************************************)
(* Properties of re-ingestion                                              *)
(***************************************************************************)
\* the document of item k of request r was ingested before the requests
AlreadyIndexed(r, k) ==
    /\ runs[r].owner = GithubOwner
    /\ runs[r].items[k].path \in DOMAIN prior
    /\ prior[runs[r].items[k].path] # NoText

\* no other request has started an item on the document of item k of request r
SoleAttempt(r, k) ==
    \A q \in Runs \ {r} : \A j \in 1..Len(runs[q].items) :
       runs[q].owner = runs[r].owner /\ runs[q].items[j].path = runs[r].items[k].path
       => ~Started(runs[q].items[j])

\* the texts whose complete chunk set document d has held or is being given
TextsOf(d) ==
    { IF d.repo_owner = GithubOwner /\ d.path \in DOMAIN prior
      THEN prior[d.path] ELSE NoText } \cup
    { runs[r].items[k].text :
        << r, k >> \in { rk \in Runs \X (1..MaxTreeFiles) :
                           /\ rk[2] <= Len(runs[rk[1]].items)
                           /\ runs[rk[1]].items[rk[2]].docId = d.id } }

\* the chunk ids the store held for a path at the start
PriorIds(p) ==
    { PriorChunkId(prior, s) : s \in { x \in PriorChunkSlots(prior) : x[1] = p } }

\* C1: a search sees, for every document ingested before, the complete chunk
\* set of one text (the old one or a new one): its chunk rows, as many
\* lexical entries and as many vectors
C1_SearchSeesCompleteSet ==
    lastSearch.done =>
      \A d \in docs :
         d.repo_owner = GithubOwner /\ d.path \in DOMAIN prior /\ prior[d.path] # NoText
         => \E t \in TextsOf(d) :
               /\ { << row.header, row.content >> :
                    row \in { x \in lastSearch.rows :
                                x.repo_owner = d.repo_owner /\ x.path = d.path } }
                  = FullChunks(t)
               /\ Cardinality(lastSearch.fts \cap ChunkIdsOf(d.id))
                  = Cardinality(FullChunks(t))
               /\ Cardinality(lastSearch.vec \cap ChunkIdsOf(d.id))
                  = Cardinality(FullChunks(t))

\* C2: once the only attempt to re-ingest a document ingested before has
\* settled, the store holds for it exactly the earlier chunk set if the
\* attempt failed, exactly the new one if it succeeded
C2_ReplacedOrUntouched ==
    \A r \in Runs : \A k \in 1..Len(runs[r].items) :
       /\ Settled(runs[r].items[k])
       /\ AlreadyIndexed(r, k) /\ SoleAttempt(r, k)
       => \A d \in DocRows(docs, runs[r].owner, runs[r].items[k].path) :
             HoldsExactly(d.id, IF runs[r].items[k].pc = "failed"
                                THEN prior[runs[r].items[k].path]
                                ELSE runs[r].items[k].text)

\* C8: while the only attempt of a use case on a document ingested before is
\* embedding its chunks, and after it has failed with a document id in hand,
\* the document row still has the earlier content and hash
C8_UpsertAfterEmbedding ==
    \A r \in Runs : \A k \in 1..Len(runs[r].items) :
       /\ runs[r].mode \in {"repository", "filesystem"}
       /\ AlreadyIndexed(r, k) /\ SoleAttempt(r, k)
       /\ Len(ChunksData(runs[r].items[k])) > 0
       /\ \/ runs[r].items[k].pc = "embed"
          \/ runs[r].items[k].pc = "failed" /\ runs[r].items[k].docId # 0
       => \A d \in DocRows(docs, runs[r].owner, runs[r].items[k].path) :
             /\ d.content = prior[runs[r].items[k].path]
             /\ d.sha = BlobSha(prior[runs[r].items[k].path])

\* C10: an item of a use case whose hash equalled the stored one is not
\* embedded, and if it is the only attempt on a document ingested before,
\* the document keeps the chunk rows it had
C10_UnchangedSkipped ==
    \A r \in Runs : \A k \in 1..Len(runs[r].items) :
       runs[r].mode \in {"repository", "filesystem"} /\ runs[r].items[k].matched
       => /\ runs[r].items[k].pc # "embed"
          /\ AlreadyIndexed(r, k) /\ SoleAttempt(r, k)
             => ChunkIdsOf(runs[r].items[k].docId) = PriorIds(runs[r].items[k].path)

(***************************************************************************)
(* Properties of the embedding cache                                       *)
(***************************************************************************)
\* search b starts in this step with text and limit accepted
AskStarts(b) ==
    /\ asks[b].pc = "idle"
    /\ asks'[b].pc \notin { "idle", "error" }

\* a search of the text b starts with has completed under the model b starts with
CompletedBefore(b) ==
    \E a \in Asks : /\ asks[a].pc = "done"
                    /\ asks[a].query = asks'[b].query
                    /\ asks[a].model = asks'[b].model

\* C11: a search that starts after a search of the same text under the same
\* model has completed gets the vector from the cache and calls no provider
C11_CompletedSearchIsReused ==
    [][\A b \in Asks :
         (AskStarts(b) /\ CompletedBefore(b))
            => (asks'[b].hit /\ asks'[b].calls = 0)]_vars

\* C12: a lookup that hits gives a vector made by the model that is active
\* at the lookup, never one stored under another model
C12_HitIsOfActiveModel ==
    \A a \in Asks : asks[a].hit => asks[a].embedding.model = asks[a].model

\* the row of hash in the cache
Entry(cache, hash) == CHOOSE e \in cache : e.query_hash = hash

\* what a row holds besides its bookkeeping
Stored(e) ==
    [query_hash |-> e.query_hash, query_text |-> e.query_text, model |-> e.model,
     embedding |-> e.embedding]

\* C13: after cacheEmbedding(h, text, model, v) on a cache without h,
\* getCachedEmbedding(h) gives v; a later cacheEmbedding with the same hash
\* leaves vector, text and model those of the first, and getCachedEmbedding
\* gives the stored vector and leaves it stored
C13_FirstPutIsKept ==
    [][/\ probe'.op = "put" =>
            IF HasEntry(query_embeddings_cache, probe'.hash)
            THEN /\ Stored(Entry(query_embeddings_cache', probe'.hash))
                      = Stored(Entry(query_embeddings_cache, probe'.hash))
                 /\ getCachedEmbedding(query_embeddings_cache', probe'.hash)
                      = getCachedEmbedding(query_embeddings_cache, probe'.hash)
            ELSE /\ getCachedEmbedding(query_embeddings_cache', probe'.hash)
                      = probe'.embedding
                 /\ Entry(query_embeddings_cache', probe'.hash).query_text
                      = Substring(probe'.text, MaxCachedText)
                 /\ Entry(query_embeddings_cache', probe'.hash).model = probe'.model
       /\ (probe'.op = "get" /\ HasEntry(query_embeddings_cache, probe'.hash)) =>
            /\ probe'.embedding # NoVector
            /\ probe'.embedding
                 = getCachedEmbedding(query_embeddings_cache', probe'.hash)
            /\ Stored(Entry(query_embeddings_cache', probe'.hash))
                 = Stored(Entry(query_embeddings_cache, probe'.hash))
       /\ { Stored(e) : e \in query_embeddings_cache }
             \subseteq { Stored(e) : e \in query_embeddings_cache' }]_vars

\* a second cacheEmbedding came with another vector than the one stored
C13_Witness ==
    /\ probe.op = "put"
    /\ HasEntry(query_embeddings_cache, probe.hash)
    /\ Entry(query_embeddings_cache, probe.hash).access_count > 1
    /\ getCachedEmbedding(query_embeddings_cache, probe.hash) # probe.embedding

\* the searches that got their vector from the row of hash or stored it there
UsesOf(hash) ==
    { a \in Asks : /\ asks[a].hash = hash
                   /\ asks[a].hit \/ asks[a].pc \in { "put", "done" } }

AccessCountsExact ==
    \A e \in query_embeddings_cache :
       e.access_count = Cardinality(UsesOf(e.query_hash))

\* C14: the lookup of a starting search that hits raises the access count of
\* its row by exactly one and sets its last access to the present, a lookup
\* that misses leaves the cache as it is, and whatever the interleaving of
\* the searches the access count of a row is the number of searches that
\* used it
C14_BookkeepingExact ==
    [][/\ \A b \in Asks :
            (AskStarts(b) /\ asks'[b].server # "hexagonal") =>
               IF asks'[b].hit
               THEN /\ HasEntry(query_embeddings_cache, asks'[b].hash)
                    /\ query_embeddings_cache' =
                          { IF e.query_hash = asks'[b].hash
                            THEN [e EXCEPT !.access_count = e.access_count + 1,
                                           !.last_accessed = clock]
                            ELSE e : e \in query_embeddings_cache }
               ELSE /\ ~ HasEntry(query_embeddings_cache, asks'[b].hash)
                    /\ query_embeddings_cache' = query_embeddings_cache
       /\ AccessCountsExact']_vars

\* two searches of one text both missed, both called the provider and both
\* stored the vector, the second of them at the last second
C14_Witness ==
    /\ MaxAsks > 1
    /\ asks[1].hash = asks[2].hash
    /\ asks[1].calls = 1 /\ asks[2].calls = 1
    /\ asks[1].pc = "done" /\ asks[2].pc = "done"
    /\ HasEntry(query_embeddings_cache, asks[1].hash)
    /\ Entry(query_embeddings_cache, asks[1].hash).access_count = 2
    /\ Entry(query_embeddings_cache, asks[1].hash).last_accessed = MaxClock

\* the step is a cleanup of a cache of more than CacheLimit rows
CleansOverfull ==
    /\ probe'.op \in { "cleanup", "cleanupCache" }
    /\ Cardinality(query_embeddings_cache) > CacheLimit

\* C15: a cleanup of a cache of more than CacheLimit rows leaves exactly
\* CacheLimit of them, each as it was, and none of the rows it removes was
\* accessed later than a row it leaves
C15_CleanupKeepsNewest ==
    [][CleansOverfull =>
         /\ Cardinality(query_embeddings_cache') = CacheLimit
         /\ query_embeddings_cache' \subseteq query_embeddings_cache
         /\ \A r \in query_embeddings_cache \ query_embeddings_cache' :
               \A e \in query_embeddings_cache' :
                  r.last_accessed <= e.last_accessed]_vars

\* the repository's cleanup has removed the row of the oldest search from a
\* cache that had grown beyond CacheLimit by a new text
C15_Witness ==
    /\ probe.op = "cleanup"
    /\ Cardinality(query_embeddings_cache) = CacheLimit
    /\ ~ HasEntry(query_embeddings_cache, QueryHash(EmbeddingModel, OldQuery(1)))
    /\ \E query \in NewQueries :
          HasEntry(query_embeddings_cache, QueryHash(EmbeddingModel, query))

\* C16: a cleanup of a cache of CacheLimit rows or fewer, the one at the
\* start of the server included, leaves every row in place and as it was
C16_CleanupWithinLimitIsNoOp ==
    [][(/\ probe'.op \in { "cleanup", "cleanupCache" }
        /\ Cardinality(query_embeddings_cache) <= CacheLimit)
          => query_embeddings_cache' = query_embeddings_cache]_vars

\* C17: the cache never holds more than CacheLimit rows
C17_CacheBounded == Cardinality(query_embeddings_cache) <= CacheLimit

(***************************************************************************)
(* Ingestion and the cache                                                 *)
(***************************************************************************)
\* C18: a step of an ingestion run adds no row to the cache of query
\* embeddings, refreshes none and removes none
C18_IngestionLeavesCache ==
    [][runs' # runs => query_embeddings_cache' = query_embeddings_cache]_vars

(***************************************************************************)
(* Properties of searchHybrid                                              *)
(***************************************************************************)
\* the ids the two indexes gave, and the fused score of each
Candidates ==
    { probe.ftsResults[j].rowid : j \in 1..Len(probe.ftsResults) } \cup
    { probe.vecResults[j].chunk_id : j \in 1..Len(probe.vecResults) }
FusedScore(id) == ScoreOf(FusedScores(probe.ftsResults, probe.vecResults), id)
Returned == { probe.result.results[j].id : j \in 1..Len(probe.result.results) }

\* C19: searchHybrid gives at most limit rows, whatever the two indexes gave
C19_AtMostLimitRows ==
    probe.op = "searchHybrid" => Len(probe.result.results) <= probe.limit

\* the indexes gave more candidates than the limit and limit rows came back
C19_Witness ==
    /\ probe.op = "searchHybrid"
    /\ Cardinality(Candidates) > probe.limit
    /\ Len(probe.result.results) = probe.limit

\* C20: the rows come in descending order of fused score, a row for each
\* ranked id in the order of the ranking, and no candidate left out has a
\* higher fused score than a row that came back
C20_DescendingFusedOrder ==
    probe.op = "searchHybrid" =>
       LET results == probe.result.results IN
       /\ \A i \in 1..Len(results), j \in 1..Len(results) :
             i < j => AtLeast(FusedScore(results[i].id), FusedScore(results[j].id))
       /\ [j \in 1..Len(results) |-> results[j].id] = probe.result.ranked
       /\ \A c \in Candidates \ Returned : \A id \in Returned :
             AtLeast(FusedScore(id), FusedScore(c))

\* rows of different fused scores came back, the first of them not the first
\* the lexical index gave, and a candidate was left out
C20_Witness ==
    /\ probe.op = "searchHybrid"
    /\ Len(probe.result.results) > 1
    /\ Len(probe.ftsResults) > 0
    /\ probe.result.results[1].id # probe.ftsResults[1].rowid
    /\ Above(FusedScore(probe.result.results[1].id),
             FusedScore(probe.result.results[2].id))
    /\ Candidates \ Returned # { }

(***************************************************************************)
(* Properties of the fusion                                                *)
(***************************************************************************)
Zero == Fraction(0, 1)

\* what the lexical list and the vector list add to the score of id: the
\* contribution at its rank in the list, nothing when it is not in the list
LexicalPart(id) ==
    IF \E j \in 1..Len(probe.ftsResults) : probe.ftsResults[j].rowid = id
    THEN LET j == CHOOSE j \in 1..Len(probe.ftsResults) :
                     probe.ftsResults[j].rowid = id
         IN bm25Weighted(probe.ftsResults[j], j - 1)
    ELSE Zero
VectorPart(id) ==
    IF \E j \in 1..Len(probe.vecResults) : probe.vecResults[j].chunk_id = id
    THEN LET j == CHOOSE j \in 1..Len(probe.vecResults) :
                     probe.vecResults[j].chunk_id = id
         IN vecWeighted(probe.vecResults[j], j - 1)
    ELSE Zero

\* C21: every contribution is at least zero, so a candidate scores at least
\* what either list alone gives it
C21_AppearingNeverLowers ==
    probe.op = "searchHybrid" =>
       \A id \in Candidates :
          /\ AtLeast(LexicalPart(id), Zero)
          /\ AtLeast(VectorPart(id), Zero)
          /\ AtLeast(FusedScore(id), LexicalPart(id))
          /\ AtLeast(FusedScore(id), VectorPart(id))

\* C22: with the score or the distance of a row held fixed, what the row
\* adds at its rank is at least what it would add at any worse rank of the
\* list
C22_RankMonotonic ==
    probe.op = "searchHybrid" =>
       /\ \A j \in 1..Len(probe.ftsResults) : \A worse \in j..(probe.limit * 2 - 1) :
             AtLeast(bm25Weighted(probe.ftsResults[j], j - 1),
                     bm25Weighted(probe.ftsResults[j], worse))
       /\ \A j \in 1..Len(probe.vecResults) : \A worse \in j..(probe.limit * 2 - 1) :
             AtLeast(vecWeighted(probe.vecResults[j], j - 1),
                     vecWeighted(probe.vecResults[j], worse))

Equal(a, b) == a.num * b.den = b.num * a.den

\* the lexical index gave the row of chunk 1 with bm25 -5.0 and the vector
\* index the row of chunk 1 at distance 0.1, nothing else
BothListsExample ==
    /\ probe.ftsResults = << [rowid |-> 1, bm25_score |-> -5] >>
    /\ probe.vecResults = << [chunk_id |-> 1, distance |-> 10] >>

\* C23: every candidate has one entry in the scores, its score the sum of
\* what the two lists add, and no id comes back twice; the candidate of the
\* example comes back as the only row, its score (1 + ln 6) / 61 + 0.9 / 61
C23_OneRowPerCandidate ==
    probe.op = "searchHybrid" =>
       LET scores == FusedScores(probe.ftsResults, probe.vecResults)
           results == probe.result.results
       IN /\ Len(scores) = Cardinality(Candidates)
          /\ \A id \in Candidates :
                /\ Cardinality({ j \in 1..Len(scores) : scores[j].id = id }) = 1
                /\ Equal(FusedScore(id), Plus(LexicalPart(id), VectorPart(id)))
          /\ \A i \in 1..Len(results), j \in 1..Len(results) :
                results[i].id = results[j].id => i = j
          /\ BothListsExample =>
                /\ Len(results) = 1
                /\ results[1].id = 1
                /\ Equal(FusedScore(1), Fraction(279 + 90, FusionK + 1))

\* the search of the example has come back
C23_Witness ==
    /\ probe.op = "searchHybrid"
    /\ BothListsExample
    /\ Len(probe.result.results) = 1

\* C24: when neither index gives a row, searchHybrid returns the empty list
\* and the tool handler answers that nothing was found, without an error
C24_NoCandidateNoError ==
    (/\ probe.op = "searchHybrid"
     /\ probe.ftsResults = << >>
     /\ probe.vecResults = << >>)
       => /\ probe.result.done
          /\ probe.result.results = << >>
          /\ ~ probe.reply.isError
          /\ probe.reply.rows = 0

\* a search came back for which neither index had a row
C24_Witness ==
    /\ probe.op = "searchHybrid"
    /\ probe.ftsResults = << >>
    /\ probe.vecResults = << >>
    /\ probe.result.done

(***************************************************************************)
(* Properties of the batch size                                            *)
(***************************************************************************)
\* C25: the batch size is the ceiling of the square root of the item count,
\* clamped to 5..20: 5 for no item, 10 for 100, 20 for 400 and for 10000,
\* and never smaller for one item more
C25_ClampedCeilSqrt ==
    probe.op = "calculateOptimalBatchSize" =>
       LET n == probe.totalItems
           b == probe.batchSize
       IN /\ b \in DefaultMinBatch..DefaultMaxBatch
          /\ n <= DefaultMinBatch * DefaultMinBatch => b = DefaultMinBatch
          /\ n > (DefaultMaxBatch - 1) * (DefaultMaxBatch - 1) => b = DefaultMaxBatch
          /\ (/\ n > DefaultMinBatch * DefaultMinBatch
              /\ n <= (DefaultMaxBatch - 1) * (DefaultMaxBatch - 1))
                => (b - 1) * (b - 1) < n /\ n <= b * b
          /\ n = 0 => b = 5
          /\ n = 100 => b = 10
          /\ n = 400 => b = 20
          /\ n = 10000 => b = 20
          /\ b <= calculateOptimalBatchSize(n + 1, DefaultMinBatch, DefaultMaxBatch)

\* the size for 101 items, between two squares, has been computed
C25_Witness ==
    /\ probe.op = "calculateOptimalBatchSize"
    /\ probe.totalItems = 101
    /\ probe.batchSize = 11

(***************************************************************************)
(* Properties of the splitter                                              *)
(***************************************************************************)
\* the chunks emitted so far, while the loop runs and on return
Emitted ==
    IF probe.op = "split" THEN probe.s.chunks
    ELSE IF probe.op = "smartChunk" THEN probe.chunks
    ELSE << >>

\* C26: every chunk smartChunk emits has wordCount at most 1.5 x maxChunkWords
C26_ChunksSizeBounded ==
    probe.op \in {"split", "smartChunk"} =>
        \A k \in 1..Len(Emitted) :
            2 * Emitted[k].wordCount <= 3 * probe.maxChunkSize

\* the line the next turn of the loop takes
NextLine == probe.lines[probe.i + 1]

\* the next turn of the loop meets the soft boundary
AtSoftBoundary ==
    /\ probe.op = "split"
    /\ probe.i < Len(probe.lines)
    /\ NextLine.kind = "body"
    /\ Len(probe.s.currentChunk) > 0
    /\ probe.s.currentWordCount + NextLine.words > probe.maxChunkSize

\* the chunks a turn of the loop emits
NewChunks == SubSeq(probe'.s.chunks, Len(probe.s.chunks) + 1, Len(probe'.s.chunks))

\* a chunk that is emitted only when its content is above the floor
IfLongEnough(chunk) ==
    IF ContentLength(chunk.content) > MinContentLength THEN << chunk >> ELSE << >>

\* C27: at the soft boundary the current chunk is finalized without the
\* line, and the line goes to a chunk under the same header that starts
\* with the continuation marker and counts the marker's words
C27_SoftBoundaryContinues ==
    [][ (AtSoftBoundary /\ probe'.op = "split") =>
          LET old == [header |-> probe.s.currentHeader,
                      content |-> Trim(probe.s.currentChunk),
                      wordCount |-> probe.s.currentWordCount]
              marker == ContinuationLine(probe.s.currentHeader)
              continued == << marker, NextLine >>
              counted == marker.words + NextLine.words
          IN /\ probe'.s.currentHeader = probe.s.currentHeader
             /\ \/ /\ probe'.s.currentChunk = continued
                   /\ probe'.s.currentWordCount = counted
                   /\ NewChunks = IfLongEnough(old)
                \/ /\ 2 * counted > 3 * probe.maxChunkSize
                   /\ probe'.s.currentChunk = << >>
                   /\ NewChunks = IfLongEnough(old) \o
                                  IfLongEnough([header |-> probe.s.currentHeader,
                                                content |-> Trim(continued),
                                                wordCount |-> counted]) ]_vars

C27_Witness ==
    /\ probe.op = "split"
    /\ probe.i >= 2
    /\ Len(probe.s.chunks) >= 1
    /\ probe.s.currentChunk = << ContinuationLine(probe.s.currentHeader),
                                 probe.lines[probe.i] >>
    /\ probe.s.currentWordCount = 3 + probe.lines[probe.i].words

\* the source lines cut into consecutive pieces: a piece ends at each
\* position of cuts and at the last line
RECURSIVE Pieces(_, _, _)
Pieces(from, cuts, n) ==
    IF from > n THEN << >>
    ELSE LET ends == { c \in cuts : c >= from } \cup { n }
             to == CHOOSE e \in ends : \A other \in ends : e <= other
         IN << [from |-> from, to |-> to] >> \o Pieces(to + 1, cuts, n)

PieceLines(lines, piece) == SubSeq(lines, piece.from, piece.to)

\* the chunks are the pieces of some cutting of the lines, in order, each
\* as matches(chunk, pieceLines) allows; the pieces left out are at most
\* 50 characters long when trimmed
Verbatim(chunk, pieceLines) == chunk.content = pieceLines

MarkedAndTrimmed(chunk, pieceLines) ==
    \/ chunk.content = Trim(pieceLines)
    \/ chunk.content = Trim(<< ContinuationLine(chunk.header) >> \o pieceLines)

Cuttings(lines) ==
    { c \in (SUBSET (1..(Len(lines) - 1))) \X (SUBSET (1..Len(lines))) :
        \A from \in c[2] : from = 1 \/ (from - 1) \in c[1] }

KeptPieces(lines, cutting) ==
    SelectSeq(Pieces(1, cutting[1], Len(lines)), LAMBDA p : p.from \in cutting[2])

DroppedShort(lines, cutting) ==
    LET pieces == Pieces(1, cutting[1], Len(lines)) IN
    \A j \in 1..Len(pieces) :
        pieces[j].from \notin cutting[2] =>
            ContentLength(Trim(PieceLines(lines, pieces[j]))) <= MinContentLength

ReproducesVerbatim(emitted, lines) ==
    \E cutting \in Cuttings(lines) :
        LET kept == KeptPieces(lines, cutting) IN
        /\ Len(kept) = Len(emitted)
        /\ DroppedShort(lines, cutting)
        /\ \A k \in 1..Len(kept) : Verbatim(emitted[k], PieceLines(lines, kept[k]))

ReproducesTrimmed(emitted, lines) ==
    \E cutting \in Cuttings(lines) :
        LET kept == KeptPieces(lines, cutting) IN
        /\ Len(kept) = Len(emitted)
        /\ DroppedShort(lines, cutting)
        /\ \A k \in 1..Len(kept) :
              MarkedAndTrimmed(emitted[k], PieceLines(lines, kept[k]))

\* the call has returned for a text that is not the empty string
ReturnedNonEmpty == probe.op = "smartChunk" /\ probe.lines # << Blank >>

\* C28 as stated: the chunk contents, in order, are the source lines
\* themselves with nothing else in between, except the lines of chunks
\* dropped by the 50-character floor
C28_ContentsAreSourceLines ==
    ReturnedNonEmpty => ReproducesVerbatim(probe.chunks, probe.lines)

\* C28 as amended: the chunk contents, in order, are the source lines in
\* consecutive pieces, each trimmed of white space at its two ends and
\* possibly led by the continuation marker of its header, except the lines
\* of chunks dropped by the 50-character floor
C28_ContentsAreTrimmedPieces ==
    ReturnedNonEmpty => ReproducesTrimmed(probe.chunks, probe.lines)

C28_Witness ==
    /\ ReturnedNonEmpty
    /\ Len(probe.chunks) = 2
    /\ probe.lines[1].lead > 0
    /\ probe.chunks[1].content = << TrimEnd(TrimStart(probe.lines[1])) >>
    /\ Len(probe.chunks[2].content) = 2
    /\ probe.chunks[2].content[1] = ContinuationLine(probe.chunks[2].header)
    /\ probe.chunks[2].content[2] = probe.lines[2]

IsHeading(line) == line.kind \in {"mid", "top"}

\* the title of the nearest heading among the first i lines
RECURSIVE HeaderAt(_, _)
HeaderAt(lines, i) ==
    IF i = 0 THEN "Introduction"
    ELSE IF IsHeading(lines[i]) THEN lines[i].title
    ELSE HeaderAt(lines, i - 1)

\* the chunks emitted by a turn of the loop or by the return
Closed ==
    LET after == IF probe'.op = "split" THEN probe'.s.chunks ELSE probe'.chunks
    IN SubSeq(after, Len(probe.s.chunks) + 1, Len(after))

\* the lines taken before the step that do not come after the chunks it closes
ClosedUpTo ==
    IF probe.i < Len(probe.lines) /\ ~IsHeading(NextLine) THEN probe.i + 1 ELSE probe.i

\* C29: an emitted chunk carries the title of the nearest heading at or
\* before its first line, or "Introduction"; a heading closes the chunk
\* before it and is the first line of the chunk it opens
C29_HeaderInForce ==
    [][ probe.op = "split" =>
          /\ \A k \in 1..Len(Closed) :
                Closed[k].header = HeaderAt(probe.lines, ClosedUpTo)
          /\ \A j \in 2..Len(probe.s.currentChunk) :
                ~IsHeading(probe.s.currentChunk[j])
          /\ (probe.i < Len(probe.lines) /\ IsHeading(NextLine)) =>
                /\ probe'.s.currentChunk = << NextLine >>
                /\ probe'.s.currentHeader = NextLine.title
                /\ Closed = IF Len(probe.s.currentChunk) > 0
                            THEN IfLongEnough([header |-> probe.s.currentHeader,
                                               content |-> Trim(probe.s.currentChunk),
                                               wordCount |-> probe.s.currentWordCount])
                            ELSE << >> ]_vars

C29_Witness ==
    /\ probe.op = "smartChunk"
    /\ Len(probe.chunks) = 2
    /\ Len(probe.lines) = 3
    /\ probe.lines[2] = Heading("mid", "Setup", 8)
    /\ probe.chunks[1].header = "Introduction"
    /\ probe.chunks[1].content = << probe.lines[1] >>
    /\ probe.chunks[2].header = "Setup"
    /\ probe.chunks[2].content = << probe.lines[2], probe.lines[3] >>

\* the chunks after a step
EmittedAfter ==
    IF probe'.op = "split" THEN probe'.s.chunks
    ELSE IF probe'.op = "smartChunk" THEN probe'.chunks
    ELSE << >>

\* the step finalizes the pending chunk, and its trimmed content is at most
\* 50 characters long
DropsPending ==
    /\ probe.op = "split"
    /\ Len(probe.s.currentChunk) > 0
    /\ \/ probe.i = Len(probe.lines)
       \/ IsHeading(NextLine)
       \/ AtSoftBoundary
    /\ ContentLength(Trim(probe.s.currentChunk)) <= MinContentLength

\* C30: every emitted chunk has trimmed content longer than 50 characters;
\* a pending chunk of at most 50 characters is dropped when it is
\* finalized, the chunks before it and the chunk after it hold none of its
\* lines; white-space-only text gives the empty sequence
C30_ShortChunksDropped ==
    [][ /\ \A k \in 1..Len(EmittedAfter) :
              ContentLength(EmittedAfter[k].content) > MinContentLength
        /\ (probe.op = "text" /\ \A j \in 1..Len(probe.lines) : IsBlank(probe.lines[j])) =>
              (probe'.op = "smartChunk" /\ probe'.chunks = << >>)
        /\ DropsPending =>
              LET continued == << ContinuationLine(probe.s.currentHeader), NextLine >>
              IN /\ SubSeq(EmittedAfter, 1, Len(probe.s.chunks)) = probe.s.chunks
                 /\ \A k \in 1..Len(Closed) : Closed[k].content = Trim(continued)
                 /\ probe'.op = "split" =>
                       probe'.s.currentChunk \in { << >>, << NextLine >>, continued } ]_vars

C30_Witness ==
    /\ probe.op = "smartChunk"
    /\ Len(probe.lines) = 3
    /\ probe.lines[1] = Body(2, 30)
    /\ IsHeading(probe.lines[2])
    /\ Len(probe.chunks) = 1
    /\ probe.chunks[1].content = << probe.lines[2], probe.lines[3] >>

\* the pieces lie one after the other in the source
InSourceOrder(pieces) ==
    \A i, j \in 1..Len(pieces) : i < j => pieces[i].to < pieces[j].from

\* C31: the chunks returned are the value of the function of (text,
\* maxChunkSize) and nothing else, and they are disjoint pieces of the
\* source lines in source order
C31_FunctionInSourceOrder ==
    probe.op = "smartChunk" =>
        /\ probe.chunks = smartChunkLines(probe.lines, probe.maxChunkSize)
        /\ \E cutting \in Cuttings(probe.lines) :
              LET kept == KeptPieces(probe.lines, cutting) IN
              /\ Len(kept) = Len(probe.chunks)
              /\ InSourceOrder(kept)
              /\ \A k \in 1..Len(kept) :
                    MarkedAndTrimmed(probe.chunks[k], PieceLines(probe.lines, kept[k]))

C31_Witness ==
    /\ probe.op = "smartChunk"
    /\ Len(probe.lines) = 3
    /\ probe.lines[2] = Heading("top", "Usage", 7)
    /\ Len(probe.chunks) = 2
    /\ probe.chunks[1].content = << probe.lines[1] >>
    /\ probe.chunks[2].content = << probe.lines[2], probe.lines[3] >>

(***************************************************************************)
(* Properties of the three chunk tables                                    *)
(***************************************************************************)
ChunkIds == { c.id : c \in chunks }
LexicalIds == { f.rowid : f \in chunks_fts }
VectorIds == { e.chunk_id : e \in chunks_embeddings }

\* C32: the chunk table, the lexical index and the vector index hold the
\* same chunk ids, each id once
C32_ThreeTablesAgree ==
    /\ ChunkIds = LexicalIds
    /\ ChunkIds = VectorIds
    /\ Cardinality(chunks) = Cardinality(ChunkIds)
    /\ Cardinality(chunks_fts) = Cardinality(ChunkIds)
    /\ Cardinality(chunks_embeddings) = Cardinality(ChunkIds)

(***************************************************************************)
(* Properties of the requests' errors                                      *)
(***************************************************************************)
StoreAndCacheSame ==
    UNCHANGED << docs, chunks, chunks_fts, chunks_embeddings, docSeq, chunkSeq,
                 query_embeddings_cache >>

\* C33: a search without query and an ingestion without owner, repository
\* or directory end in an error in the step that starts them, with no
\* provider call, no listing and no item, the store and the cache as they
\* were, and they do nothing afterwards
C33_MissingInputFailsAtOnce ==
    [][/\ \A a \in Asks :
            /\ (asks[a].pc = "idle" /\ asks'[a].pc # "idle" /\ asks'[a].query = EmptyQuery)
                  => /\ asks'[a].pc = "error"
                     /\ asks'[a].calls = 0
                     /\ asks'[a].result = NoSearch
                     /\ StoreAndCacheSame
            /\ (asks[a].pc = "error" /\ asks[a].query = EmptyQuery)
                  => asks'[a] = asks[a]
       /\ \A r \in Runs :
            /\ (runs[r].st = "idle" /\ runs'[r].st # "idle" /\ runs'[r].owner = "")
                  => /\ runs'[r].st = "error"
                     /\ runs'[r].items = << >>
                     /\ StoreAndCacheSame
            /\ (runs[r].st = "error" /\ runs[r].owner = "")
                  => runs'[r] = runs[r]
      ]_vars

C33_Witness ==
    /\ asks[1].pc = "error" /\ asks[1].query = EmptyQuery /\ asks[1].calls = 0
    /\ runs[1].st = "error" /\ runs[1].owner = "" /\ runs[1].items = << >>

\* item k of the run failed at the embedding provider or in the store,
\* after its fetch had succeeded
BackendFailed(run, k) == run.items[k].pc = "failed" /\ run.items[k].docId # 0

\* C34: a request calls the provider at most once per text, a search whose
\* provider call raised ends in an error, and an ingestion that met a
\* failing provider or store does not return as if it had succeeded
C34_BackendFailureSurfaces ==
    /\ \A a \in Asks :
          /\ asks[a].calls <= 1
          /\ asks[a].pc = "done" => asks[a].embedding # NoVector
    /\ \A r \in Runs :
          runs[r].st = "returned"
          => \A k \in 1..Len(runs[r].items) : ~BackendFailed(runs[r], k)

(***************************************************************************)
(* Properties of the progress callback                                     *)
(***************************************************************************)
\* the number of batches of a request
Batches(run) == (Len(run.items) + run.batchSize - 1) \div run.batchSize

\* C36: the callback has fired once for each batch whose items have all
\* settled and before any item of the next batch starts; the j-th value is
\* the number of items of the first j batches, failed ones included, so
\* the values increase and the last one is the number of items
C36_ProgressPerBatch ==
    \A r \in Runs :
       runs[r].mode = "repository" /\ runs[r].st \in {"running", "returned"}
       => LET run == runs[r]
              n == Len(run.items)
              fired == Len(run.progress)
          IN /\ \A j \in 1..fired :
                   /\ run.progress[j] = Cardinality({ k \in 1..n : BatchOf(run, k) < j })
                   /\ j > 1 => run.progress[j - 1] < run.progress[j]
             /\ \A k \in 1..n :
                   /\ Started(run.items[k]) => BatchOf(run, k) <= fired
                   /\ BatchOf(run, k) < fired => Settled(run.items[k])
             /\ run.st = "running" => fired < Batches(run)
             /\ run.st = "returned"
                => /\ fired = Batches(run)
                   /\ n > 0 => run.progress[fired] = n

\* two batches, the first with a failed item: 5 of 6, then 6 of 6
C36_Witness ==
    /\ runs[1].mode = "repository"
    /\ runs[1].st = "returned"
    /\ runs[1].progress = << DefaultMinBatch, DefaultMinBatch + 1 >>
    /\ runs[1].items[1].pc = "failed"

(***************************************************************************)
(* Properties of overlapping ingestions                                    *)
(***************************************************************************)
\* the items of the requests that work on document d
AttemptsOn(d) ==
    { rk \in Runs \X (1..MaxTreeFiles) :
        /\ rk[2] <= Len(runs[rk[1]].items)
        /\ runs[rk[1]].owner = d.repo_owner
        /\ runs[rk[1]].items[rk[2]].path = d.path
        /\ Started(runs[rk[1]].items[rk[2]]) }

\* C37: once two requests have both ingested the same document, it holds
\* the complete chunk set of one of them and nothing of the other, and no
\* vector is left for a chunk that is gone
C37_OneWriterWins ==
    \A d \in docs :
       (/\ Cardinality(AttemptsOn(d)) >= 2
        /\ \A rk \in AttemptsOn(d) : runs[rk[1]].items[rk[2]].pc = "done")
       => /\ \E rk \in AttemptsOn(d) : HoldsExactly(d.id, runs[rk[1]].items[rk[2]].text)
          /\ VectorIds \subseteq ChunkIds

(***************************************************************************)
(* Properties of the end of a request                                      *)
(***************************************************************************)
\* how far the processing of an item has come
Stage(item) ==
    CASE item.pc = "pending" -> 0
      [] item.pc = "fetch" -> 1
      [] item.pc = "saveDoc" -> 2
      [] item.pc = "embed" -> 3
      [] OTHER -> 4

\* the awaited calls an item still has before it settles: its fetch, the
\* saving of its document and one embedding per chunk not yet embedded
CallsLeft(item) ==
    CASE item.pc = "pending" -> Len(ChunksData(item)) + 4
      [] item.pc = "fetch" -> Len(ChunksData(item)) + 3
      [] item.pc = "saveDoc" -> Len(ChunksData(item)) + 2
      [] item.pc = "embed" -> Len(ChunksData(item)) + 1 - item.n
      [] OTHER -> 0

RECURSIVE SumCallsLeft(_, _)
SumCallsLeft(items, n) ==
    IF n = 0 THEN 0 ELSE SumCallsLeft(items, n - 1) + CallsLeft(items[n])

\* what a running request has before it: the calls of its items and its return
Left(run) ==
    IF run.st = "running" THEN 1 + SumCallsLeft(run.items, Len(run.items)) ELSE 0

\* the items of a request that wait on a call
Awaiting(run) ==
    { k \in 1..Len(run.items) : run.items[k].pc \in {"fetch", "saveDoc", "embed"} }

\* C38: a run over a finite item list ends once the calls of its items
\* settle.  Every step of a running request brings it nearer to its return:
\* the item list stays as listed, no item goes back to an earlier stage, a
\* settled item is not touched again (each item is attempted once), and what
\* is left gets strictly smaller; the request leaves "running" only by
\* returning.  A running request either waits on a call of one of its items
\* or can take its own next step.  A returned request has every item settled
\* and returns the counts of the attempted and of the processed items.
C38_RunTerminates ==
    /\ [][\A r \in Runs :
            (runs[r].st = "running" /\ runs'[r] # runs[r])
            => /\ runs'[r].st \in {"running", "returned"}
               /\ Left(runs'[r]) < Left(runs[r])
               /\ Len(runs'[r].items) = Len(runs[r].items)
               /\ \A k \in 1..Len(runs[r].items) :
                     /\ Stage(runs[r].items[k]) <= Stage(runs'[r].items[k])
                     /\ runs'[r].items[k].path = runs[r].items[k].path
                     /\ Settled(runs[r].items[k])
                        => runs'[r].items[k] = runs[r].items[k]]_vars
    /\ [](\A r \in Runs :
            /\ runs[r].st = "running"
               => (Awaiting(runs[r]) # {} \/ ENABLED BatchAdvance(r))
            /\ runs[r].st = "returned"
               => /\ \A k \in 1..Len(runs[r].items) : Settled(runs[r].items[k])
                  /\ runs[r].result.totalFiles = Len(runs[r].items)
                  /\ runs[r].result.processedFiles =
                        Cardinality({ k \in 1..Len(runs[r].items) :
                                        runs[r].items[k].pc = "done" }))

\* a returned request of two batches, with a failed fetch in each
C38_Witness ==
    /\ runs[1].st = "returned"
    /\ Len(runs[1].items) = DefaultMinBatch + 1
    /\ runs[1].items[2].pc = "failed"
    /\ runs[1].items[DefaultMinBatch + 1].pc = "failed"
    /\ runs[1].result.totalFiles = DefaultMinBatch + 1

(***************************************************************************)
(* Properties of the order among equal fused scores                        *)
(***************************************************************************)
\* the place of a candidate's first appearance: the lexical list in its
\* order, then the ids only the vector list holds in the order of that list
FirstAppearance(id) ==
    IF \E j \in 1..Len(probe.ftsResults) : probe.ftsResults[j].rowid = id
    THEN CHOOSE j \in 1..Len(probe.ftsResults) : probe.ftsResults[j].rowid = id
    ELSE Len(probe.ftsResults) +
         (CHOOSE j \in 1..Len(probe.vecResults) : probe.vecResults[j].chunk_id = id)

SameScore(a, b) == AtLeast(FusedScore(a), FusedScore(b)) /\ AtLeast(FusedScore(b), FusedScore(a))

\* a goes before b: a higher fused score, or the same and an earlier appearance
Before(a, b) ==
    \/ Above(FusedScore(a), FusedScore(b))
    \/ SameScore(a, b) /\ FirstAppearance(a) < FirstAppearance(b)

\* C39: the ranking is fixed by the two lists and the limit: the ranked ids
\* are the first limit candidates by fused score, and candidates of equal
\* fused score stand in the order of their first appearance, the ids of the
\* lexical list in its order and then the vector-only ids in the order of the
\* vector list; this also decides which of them the limit cuts off
C39_TiesInOrderOfAppearance ==
    probe.op = "searchHybrid" =>
       LET ranked == probe.result.ranked
           kept == { ranked[j] : j \in 1..Len(ranked) }
       IN /\ kept \subseteq Candidates
          /\ Len(ranked) = Min(Cardinality(Candidates), probe.limit)
          /\ \A i \in 1..Len(ranked), j \in 1..Len(ranked) :
                i < j => Before(ranked[i], ranked[j])
          /\ \A c \in Candidates \ kept : \A id \in kept : Before(id, c)

\* two ranked candidates of equal fused score, the one with the greater id
\* first: it is in the lexical list and the other only in the vector list
C39_Witness ==
    /\ probe.op = "searchHybrid"
    /\ \E i \in 1..Len(probe.result.ranked), j \in 1..Len(probe.result.ranked) :
          /\ i < j
          /\ SameScore(probe.result.ranked[i], probe.result.ranked[j])
          /\ probe.result.ranked[i] > probe.result.ranked[j]
          /\ \E f \in 1..Len(probe.ftsResults) :
                probe.ftsResults[f].rowid = probe.result.ranked[i]
          /\ \A f \in 1..Len(probe.ftsResults) :
                probe.ftsResults[f].rowid # probe.result.ranked[j]

(***************************************************************************)
(* Properties of the documented batch sizes                                *)
(***************************************************************************)
\* C40: with the default bounds the batch size is 5 to 7 for 10 to 50
\* items, 10 to 14 for 100 to 200 items and 20 for 500 items or more
C40_DocumentedRanges ==
    probe.op = "calculateOptimalBatchSize" =>
       LET n == probe.totalItems
           b == probe.batchSize
       IN /\ n \in 10..50 => b \in 5..7
          /\ n \in 100..200 => b \in 10..14
          /\ n >= 500 => b = 20

====
